---- MODULE Spec2Model ----
(***************************************************************************)
(* WealthWarden: the ledger and asset-state engine of the bookkeeping bot. *)
(*                                                                         *)
(* The persisted store (tables assets and transactions of db/models.py)    *)
(* and the per-user dialog state (context.user_data) are the state; every  *)
(* handler of main.py is one action.  A handler works on a SQLAlchemy      *)
(* session (autocommit=False, autoflush=False): what it changes reaches    *)
(* the store only at db.commit(); a session that is dropped without a      *)
(* commit loses its pending changes.  Updates are processed one at a time  *)
(* by the dispatcher, so each handler is atomic.                           *)
(*                                                                         *)
(* Money is modelled in exact integer units of 0.005, half the threshold   *)
(* of handle_asset_update; texts that are matched by pattern are sequences *)
(* of characters.                                                          *)
(***************************************************************************)
EXTENDS Integers, Sequences, FiniteSets, TLC

(***************************************************************************)
(* Bounds of the model.                                                    *)
(***************************************************************************)
MaxOps == 2        \* requests that reach the ledger, per behaviour
MaxNow == 1        \* clock ticks that may pass
MaxObs == 1        \* asset observations in one classifier result

(***************************************************************************)
(* Texts.                                                                  *)
(***************************************************************************)
ALI == <<"a", "l", "i">>
ALIPAY == <<"A", "l", "i", "p", "a", "y">>
VISA == <<"V", "i", "s", "a">>
LUNCH == <<"L", "u", "n", "c", "h">>
LUN == <<"l", "u", "n">>
PAY == <<"p", "a", "y">>
LAUNCH == <<"L", "a", "u", "n", "c", "h">>
NCH == <<"n", "c", "h">>
L_NCH == <<"l", "_", "n", "c", "h">>
PERCENT == <<"%">>
FOOD == <<"F", "o", "o", "d">>
FOOD_LOWER == <<"f", "o", "o", "d">>
\* "E'" and "e'" stand for the capital and the small letter e with acute
EPICERIE == <<"E'", "p", "i", "c", "e", "r", "i", "e">>
EPICERIE_LOWER == <<"e'", "p", "i", "c", "e", "r", "i", "e">>
ALIPAY_LOWER == <<"a", "l", "i", "p", "a", "y">>
TRANSFER_TO == <<"T", "o", " ">>
TRANSFER_FROM == <<"F", "r", "o", "m", " ">>
EMPTY == <<>>

\* str.lower() / SQL lower() on the letters the model uses; SQLite folds
\* the letters of ASCII only
Lower(c) ==
    CASE c = "A" -> "a"
      [] c = "V" -> "v"
      [] c = "L" -> "l"
      [] c = "T" -> "t"
      [] c = "F" -> "f"
      [] OTHER -> c

LowerStr(s) == [i \in DOMAIN s |-> Lower(s[i])]

Contains(s, p) ==
    \E i \in 0..(Len(s) - Len(p)) : SubSeq(s, i + 1, i + Len(p)) = p

\* SQL LIKE: % matches any run of characters, _ any one character
RECURSIVE Like(_, _)
Like(s, pattern) ==
    IF pattern = <<>> THEN s = <<>>
    ELSE IF Head(pattern) = "%"
         THEN Like(s, Tail(pattern)) \/ (s # <<>> /\ Like(Tail(s), pattern))
         ELSE /\ s # <<>>
              /\ (Head(pattern) = "_" \/ Head(pattern) = Head(s))
              /\ Like(Tail(s), Tail(pattern))

\* column.ilike(f"%{term}%"): lower(column) LIKE lower('%term%'); the term
\* is not escaped
ILike(value, term) == Like(LowerStr(value), <<"%">> \o LowerStr(term) \o <<"%">>)

\* the characters of a category name
Spelling(category) ==
    CASE category = "Food" -> FOOD
      [] category = "food" -> FOOD_LOWER
      [] category = "E'picerie" -> EPICERIE
      [] category = "e'picerie" -> EPICERIE_LOWER
      [] OTHER -> <<category>>

(***************************************************************************)
(* Input domains.                                                          *)
(***************************************************************************)
Kinds == {"LIQUID", "CREDIT", "INVESTMENT", "OTHER"}
KindArgs == {"CREDIT"}
TxTypes == {"INCOME", "EXPENSE"}
NameArgs == {ALI, VISA}
NoName == <<"-">>
Categories == {"Food", "Salary"}
AddAmounts == {100, -100}
DualAmounts == {100}
TransferAmounts == {200, -100}
SetAmounts == {700}
ReplyNumbers == {900}
DetailAmounts == {100, -100}
ObsBalances == {900}
NoKind == "-"
TICK_HOURS == 25
DUP_WINDOW_HOURS == 24
EPSILON == 2

VARIABLES
    assets,      \* table assets: row id -> [name, type, balance, category,
                 \* currency, updated_at]
    budgets,     \* table budgets: set of rows [category, limit_amount]
    env,         \* the process environment: [DEFAULT_CURRENCY, UTC_OFFSET]
    txs,         \* table transactions: set of rows
    user_data,   \* context.user_data of the allowed user
    buttons,     \* ids of the transactions a "Yes, Delete" button was shown for
    now,         \* the clock, in ticks of TICK_HOURS
    acct,        \* history: per asset, the last direct balance-set and the
                 \* ids of the stored transactions linked to it since then
    ops,         \* history: number of requests that reached the ledger
    last         \* history: what the last such request was and did

vars == <<assets, budgets, env, txs, user_data, buttons, now, acct, ops, last>>

AssetIds == DOMAIN assets
TxIds == {t.id : t \in txs}

Max(S) == CHOOSE x \in S : \A y \in S : y <= x
Min(S) == CHOOSE x \in S : \A y \in S : x <= y

Abs(x) == IF x < 0 THEN -x ELSE x

\* SQLite INTEGER PRIMARY KEY without AUTOINCREMENT: max(rowid) + 1
NextTxId(rows) == IF rows = {} THEN 1 ELSE Max({t.id : t \in rows}) + 1

TxById(rows, id) == CHOOSE t \in rows : t.id = id

Transaction(id, amount, category, type, description, asset_id, raw_text) ==
    [id |-> id, date |-> now, amount |-> amount, category |-> category,
     type |-> type, description |-> description, asset_id |-> asset_id,
     raw_text |-> raw_text]

Asset(name, type, balance, category, currency, updated_at) ==
    [name |-> name, type |-> type, balance |-> balance, category |-> category,
     currency |-> currency, updated_at |-> updated_at]

\* the flush of a commit: a loaded row whose columns changed is UPDATEd, and
\* the UPDATE sets updated_at (onupdate=datetime.utcnow); a row that ends
\* with the values it was loaded with is not written
Flush(rows) ==
    [a \in DOMAIN rows |->
        IF a \in DOMAIN assets /\ rows[a] # assets[a]
        THEN [rows[a] EXCEPT !.updated_at = now]
        ELSE rows[a]]

NoLog == [amount |-> 0, type |-> "-", category |-> "-", desc |-> EMPTY]

NoLast ==
    [op |-> "start", outcome |-> "-", tx |-> 0, asset |-> 0, to |-> 0,
     amount |-> 0, obs |-> 0, pre |-> 0, undo |-> FALSE,
     type |-> "-", category |-> "-", term |-> <<>>,
     intent |-> "-", reply |-> "-", report |-> [kind |-> "-"],
     observed |-> <<>>, updated |-> <<>>, skipped |-> <<>>, failed |-> FALSE,
     listed |-> <<>>]

\* what a request did: the branch taken, the transaction recorded or
\* deleted, the asset(s) resolved, the amount asked for, the number of
\* observations it carried; for a classified message the type and category
\* of its transaction data, the observations it carried, the names its
\* summary lists as updated and as unchanged, whether it ended in the error
\* reply; for a deletion by search the term and the candidates an ambiguous
\* search listed; for a classified message the intent of the result and,
\* when the handler answers with a reply text, which one; for a report
\* the figures it shows
Did(op, outcome, tx, asset, to) ==
    [NoLast EXCEPT !.op = op, !.outcome = outcome, !.tx = tx, !.asset = asset,
                   !.to = to]

\* a record that resolved an asset remembers the balance it found
DidRecord(op, tx, asset, obs) ==
    [Did(op, "recorded", tx, asset, 0) EXCEPT
        !.obs = obs,
        !.pre = IF asset = 0 THEN 0 ELSE assets[asset].balance]

\* a deletion that immediately follows the record of the same transaction
\* carries the balance the record found
DidDelete(op, tx) ==
    LET follows == /\ last.outcome = "recorded" /\ last.tx = tx.id
                   /\ last.obs = 0
                   /\ last.asset # 0 /\ last.asset = tx.asset_id
    IN  [Did(op, "deleted", tx.id, tx.asset_id, 0) EXCEPT
            !.pre = IF follows THEN last.pre ELSE 0,
            !.undo = follows]

(***************************************************************************)
(* The store the program starts on.  The database file outlives the        *)
(* process: it is empty on first use, or holds what earlier runs stored,   *)
(* here the two accounts of verify_pro_features.py, as a wallet and a      *)
(* credit card or as two accounts of the other kinds.                      *)
(***************************************************************************)
InitStores ==
    {<<>>,
     <<Asset(ALIPAY, "LIQUID", 1000, "Wallet", "CNY", 0),
       Asset(VISA, "CREDIT", 500, "Credit", "CNY", 0)>>,
     <<Asset(ALIPAY, "INVESTMENT", 1000, "Wallet", "CNY", 0),
       Asset(VISA, "OTHER", 500, "Credit", "CNY", 0)>>}

Init ==
    /\ assets \in InitStores
    /\ budgets = {}
    /\ env = [DEFAULT_CURRENCY |-> "CNY", UTC_OFFSET |-> 0]
    /\ txs = {}
    /\ user_data = [expect_balance_for |-> 0, expect_log_details |-> FALSE,
                    log_data |-> NoLog]
    /\ buttons = {}
    /\ now = 0
    /\ acct = [a \in DOMAIN assets |-> [base |-> assets[a].balance, since |-> {}]]
    /\ ops = 0
    /\ last = NoLast

(***************************************************************************)
(* db.query(Asset).filter(Asset.name.ilike(f"%{name}%")).first()           *)
(* No ORDER BY: any matching row may be the first.  0 stands for None.     *)
(***************************************************************************)
Matches(name) == {a \in AssetIds : ILike(assets[a].name, name)}

FirstILike(name) == IF Matches(name) = {} THEN {0} ELSE Matches(name)

\* db.query(Asset).filter(Asset.name == name).first() : names are unique
ExactMatch(rows, name) ==
    IF \E a \in DOMAIN rows : rows[a].name = name
    THEN CHOOSE a \in DOMAIN rows : rows[a].name = name
    ELSE 0

(***************************************************************************)
(* The polarity rule as each call site spells it out.                      *)
(***************************************************************************)
\* handle_callback, sel_src_ (guided log)
\* variant: the kind of the asset is not looked at
GuidedDelta_AnyKind(kind, type, amount) ==
    IF type = "EXPENSE" THEN -amount ELSE amount

GuidedDelta(kind, type, amount) ==
    IF type = "EXPENSE"
    THEN (IF kind = "CREDIT" THEN amount ELSE -amount)
    ELSE (IF kind = "CREDIT" THEN -amount ELSE amount)

\* handle_add_command
AddDelta(kind, type, amount) ==
    IF type = "EXPENSE" THEN -amount ELSE amount

\* handle_dual_intent
\* variant: the balance is left as loaded
DualDelta_Unapplied(kind, type, amount) == 0

DualDelta(kind, type, amount) ==
    IF type = "EXPENSE" THEN -amount
    ELSE IF type = "INCOME" THEN amount
    ELSE 0

\* handle_callback, cfm_del_
RevertDelta(kind, type, amount) ==
    IF type = "EXPENSE"
    THEN (IF kind = "CREDIT" THEN -amount ELSE amount)
    ELSE IF type = "INCOME"
    THEN (IF kind = "CREDIT" THEN amount ELSE -amount)
    ELSE 0

\* handle_message, DELETE intent: the row is deleted, no balance is touched
IntentDeleteDelta(kind, type, amount) == 0

\* variants of the transfer rule: the source treated like any account, the
\* destination debited
TransferFromDelta_AnyKind(kind, amount) == -amount
TransferToDelta_Debited(kind, amount) == -amount

\* handle_transfer_command
TransferFromDelta(kind, amount) == IF kind = "CREDIT" THEN amount ELSE -amount
TransferToDelta(kind, amount) == IF kind = "CREDIT" THEN -amount ELSE amount

Bump(rows, a, delta) == [rows EXCEPT ![a].balance = @ + delta]

\* history: a transaction linked to asset a has been stored / a row removed
Linked(ac, a, id) == IF a = 0 THEN ac ELSE [ac EXCEPT ![a].since = @ \cup {id}]
Unlinked(ac, id) == [a \in DOMAIN ac |-> [ac[a] EXCEPT !.since = @ \ {id}]]
Reset(ac, a, balance) == [ac EXCEPT ![a] = [base |-> balance, since |-> {}]]

(***************************************************************************)
(* /setbalance <asset> <amount> [type]                                     *)
(***************************************************************************)
SetBalance(name, amount, kind) ==
    /\ ops < MaxOps
    /\ \E a \in FirstILike(name) :
        IF a # 0
        THEN /\ assets' = Flush([assets EXCEPT
                    ![a].balance = amount,
                    ![a].type = IF kind # NoKind THEN kind ELSE @])
             /\ acct' = Reset(acct, a, amount)
             /\ last' = Did("setbalance", "updated", 0, a, 0)
        ELSE /\ assets' = Append(assets,
                    Asset(name, IF kind # NoKind THEN kind ELSE "LIQUID", amount,
                          "General", "CNY", now))
             /\ acct' = Append(acct, [base |-> amount, since |-> {}])
             /\ last' = Did("setbalance", "created", 0, Len(assets) + 1, 0)
    /\ ops' = ops + 1
    /\ UNCHANGED <<budgets, env, txs, user_data, buttons, now>>

(***************************************************************************)
(* /add <amount> <category> <desc> [asset]                                 *)
(***************************************************************************)
Add(amount, category, desc, asset_name) ==
    /\ ops < MaxOps
    /\ LET tx_type == IF amount > 0 THEN "INCOME" ELSE "EXPENSE"
           abs_amount == Abs(amount)
           id == NextTxId(txs)
       IN  \E a \in (IF asset_name = NoName THEN {0} ELSE FirstILike(asset_name)) :
            /\ assets' = IF a = 0 THEN assets
                         ELSE Flush(Bump(assets, a,
                                         AddDelta(assets[a].type, tx_type, abs_amount)))
            /\ txs' = txs \cup
                 {Transaction(id, abs_amount, category, tx_type, desc, a, "Manual")}
            /\ acct' = Linked(acct, a, id)
            /\ last' = DidRecord("add", id, a, 0)
    /\ ops' = ops + 1
    /\ UNCHANGED <<budgets, env, user_data, buttons, now>>

(***************************************************************************)
(* /transfer <from> <to> <amount>                                          *)
(***************************************************************************)
\* variant: each side that resolves is applied, the other skipped
TransferBalances_Partial(rows, from_asset, to_asset, amount) ==
    LET debited == IF from_asset = 0 THEN rows
                   ELSE Bump(rows, from_asset,
                             TransferFromDelta(rows[from_asset].type, amount))
    IN  IF to_asset = 0 THEN debited
        ELSE Bump(debited, to_asset, TransferToDelta(debited[to_asset].type, amount))

\* the balances the handler commits: none changed when a side is missing,
\* else the source debited, then the destination credited
TransferBalances(rows, from_asset, to_asset, amount) ==
    IF from_asset = 0 \/ to_asset = 0
    THEN rows
    ELSE LET debited == Bump(rows, from_asset,
                             TransferFromDelta(rows[from_asset].type, amount))
         IN  Bump(debited, to_asset, TransferToDelta(debited[to_asset].type, amount))

\* variant: both rows linked to the source
TransferRows_SourceOnly(rows, id, from_asset, to_asset, amount) ==
    {Transaction(id, amount, "TRANSFER", "EXPENSE",
                 TRANSFER_TO \o rows[to_asset].name, from_asset, "Transfer"),
     Transaction(id + 1, amount, "TRANSFER", "INCOME",
                 TRANSFER_FROM \o rows[from_asset].name, from_asset, "Transfer")}

\* the two rows the handler adds
TransferRows(rows, id, from_asset, to_asset, amount) ==
    {Transaction(id, amount, "TRANSFER", "EXPENSE",
                 TRANSFER_TO \o rows[to_asset].name, from_asset, "Transfer"),
     Transaction(id + 1, amount, "TRANSFER", "INCOME",
                 TRANSFER_FROM \o rows[from_asset].name, to_asset, "Transfer")}

Transfer(from_name, to_name, amount) ==
    /\ ops < MaxOps
    /\ \E from_asset \in FirstILike(from_name), to_asset \in FirstILike(to_name) :
        /\ assets' = Flush(TransferBalances(assets, from_asset, to_asset, amount))
        /\ IF from_asset = 0 \/ to_asset = 0
           THEN /\ last' = [Did("transfer", "asset_not_found", 0, from_asset, to_asset)
                            EXCEPT !.amount = amount]
                /\ UNCHANGED <<txs, acct>>
           ELSE LET id == NextTxId(txs)
                IN  /\ txs' = txs \cup TransferRows(assets, id, from_asset, to_asset, amount)
                    /\ acct' = Linked(Linked(acct, from_asset, id), to_asset, id + 1)
                    /\ last' = [Did("transfer", "ok", id, from_asset, to_asset)
                                EXCEPT !.amount = amount]
    /\ ops' = ops + 1
    /\ UNCHANGED <<budgets, env, user_data, buttons, now>>

(***************************************************************************)
(* The user attends to one dialog at a time: a new dialog (balance prompt, *)
(* guided log, delete confirmation) is opened only when none is open.      *)
(***************************************************************************)
NoDialog ==
    /\ user_data.expect_balance_for = 0
    /\ ~user_data.expect_log_details
    /\ user_data.log_data = NoLog
    /\ buttons = {}

(***************************************************************************)
(* Wallet button "Manage <asset>" (upd_<id>): asks for the balance.        *)
(***************************************************************************)
UpdPress(asset_id) ==
    /\ NoDialog
    /\ asset_id \in AssetIds
    /\ user_data' = [user_data EXCEPT !.expect_balance_for = asset_id]
    /\ UNCHANGED <<budgets, env, assets, txs, buttons, now, acct, ops, last>>

(***************************************************************************)
(* Texts the user sends: a bare number, "<number> <category>", the menu    *)
(* button "Log Transaction", or any other free text.                       *)
(***************************************************************************)
Texts ==
    {[k |-> "number", n |-> n, cat |-> "General"] : n \in ReplyNumbers} \cup
    {[k |-> "details", n |-> n, cat |-> "Food"] : n \in DetailAmounts} \cup
    {[k |-> "menu_log", n |-> 0, cat |-> "-"], [k |-> "free", n |-> 0, cat |-> "-"]}

\* float(text) succeeds
IsFloat(text) == text.k = "number"
\* float(text.split(maxsplit=1)[0]) succeeds
StartsWithFloat(text) == text.k \in {"number", "details"}

(***************************************************************************)
(* handle_message, a reply while a balance is expected (Case 1)            *)
(***************************************************************************)
MsgBalanceReply(is_reply, text) ==
    /\ is_reply
    /\ user_data.expect_balance_for # 0
    /\ user_data' = [user_data EXCEPT !.expect_balance_for = 0]
    /\ IF IsFloat(text)
       THEN /\ ops < MaxOps
            /\ LET a == user_data.expect_balance_for
               IN  /\ assets' = Flush([assets EXCEPT ![a].balance = text.n])
                   /\ acct' = Reset(acct, a, text.n)
                   /\ last' = Did("balance_reply", "updated", 0, a, 0)
            /\ ops' = ops + 1
       ELSE UNCHANGED <<assets, acct, ops, last>>
    /\ UNCHANGED <<budgets, env, txs, buttons, now>>

(***************************************************************************)
(* handle_message, a reply while log details are expected (Case 3)         *)
(***************************************************************************)
MsgLogDetails(is_reply, text) ==
    /\ is_reply
    /\ user_data.expect_balance_for = 0
    /\ user_data.expect_log_details
    /\ IF StartsWithFloat(text)
       THEN user_data' = [user_data EXCEPT
                !.log_data = [amount |-> Abs(text.n),
                              type |-> IF text.n > 0 THEN "EXPENSE" ELSE "INCOME",
                              category |-> text.cat, desc |-> EMPTY],
                !.expect_log_details = FALSE]
       ELSE UNCHANGED user_data
    /\ UNCHANGED <<budgets, env, assets, txs, buttons, now, acct, ops, last>>

\* handle_message goes on to the menu buttons and the classifier
PastReplies(is_reply) ==
    ~(is_reply /\ (user_data.expect_balance_for # 0 \/ user_data.expect_log_details))

\* some message gets as far as the classifier: it is no pending reply and
\* no menu button
Classified ==
    {m \in BOOLEAN \X Texts : PastReplies(m[1]) /\ m[2].k # "menu_log"} # {}

(***************************************************************************)
(* handle_message, menu button "Log Transaction"                           *)
(***************************************************************************)
MsgMenuLog(is_reply) ==
    /\ NoDialog
    /\ PastReplies(is_reply)
    /\ user_data' = [user_data EXCEPT !.expect_log_details = TRUE]
    /\ UNCHANGED <<budgets, env, assets, txs, buttons, now, acct, ops, last>>

(***************************************************************************)
(* handle_callback, sel_src_<id>: the payment source of a guided log       *)
(***************************************************************************)
SelSrc(asset_id) ==
    /\ asset_id \in AssetIds
    /\ IF user_data.log_data = NoLog
       THEN UNCHANGED <<assets, txs, user_data, acct, ops, last>>
       ELSE /\ ops < MaxOps
            /\ LET tx_data == user_data.log_data
                   id == NextTxId(txs)
               IN  /\ assets' = Flush(Bump(assets, asset_id,
                          GuidedDelta(assets[asset_id].type, tx_data.type, tx_data.amount)))
                   /\ txs' = txs \cup
                        {Transaction(id, tx_data.amount, tx_data.category, tx_data.type,
                                     tx_data.desc, asset_id, "Guided")}
                   /\ acct' = Linked(acct, asset_id, id)
                   /\ last' = DidRecord("guided", id, asset_id, 0)
            /\ user_data' = [user_data EXCEPT !.log_data = NoLog]
            /\ ops' = ops + 1
    /\ UNCHANGED <<budgets, env, buttons, now>>

(***************************************************************************)
(* The classifier's result (AIService.analyze_input).                      *)
(***************************************************************************)
NoTx == [amount |-> 0, type |-> "-", category |-> "-", description |-> EMPTY,
         asset_name |-> NoName]

TxData ==
    {[amount |-> x, type |-> t, category |-> c, description |-> LUNCH, asset_name |-> n] :
        x \in DualAmounts, t \in TxTypes, c \in {"Food"}, n \in NameArgs \cup {NoName}}

\* an observation: name, balance (numeric: float(balance) succeeds), and
\* category and currency when the classifier gives them ("-": absent)
Observation(name, balance, numeric, category, currency) ==
    [name |-> name, balance |-> balance, numeric |-> numeric,
     category |-> category, currency |-> currency]

Observations == {Observation(n, b, TRUE, "-", "-") : n \in {ALIPAY}, b \in ObsBalances}

SeqsUpTo(S, n) == UNION {[1..k -> S] : k \in 0..n}

Payloads ==
    {[intent |-> "RECORD", tx |-> t, assets |-> o, target |-> "-", search_term |-> EMPTY] :
        t \in TxData \cup {NoTx}, o \in SeqsUpTo(Observations, MaxObs)}
    \ {[intent |-> "RECORD", tx |-> NoTx, assets |-> <<>>, target |-> "-",
        search_term |-> EMPTY]}

Deletes ==
    {[intent |-> "DELETE", tx |-> NoTx, assets |-> <<>>, target |-> "LAST",
      search_term |-> EMPTY],
     [intent |-> "DELETE", tx |-> NoTx, assets |-> <<>>, target |-> "SEARCH",
      search_term |-> LUN]}

\* a QUERY, and the CHAT result, which is also what a failed call returns
ReadOnly ==
    {[intent |-> i, tx |-> NoTx, assets |-> <<>>, target |-> "-", search_term |-> EMPTY] :
        i \in {"QUERY", "CHAT"}}

Results == Payloads \cup Deletes \cup ReadOnly

(***************************************************************************)
(* is_duplicate_transaction                                                *)
(***************************************************************************)
\* variant: any stored match counts, whatever its age
is_duplicate_transaction_AnyAge(rows, data) ==
    \E t \in rows :
        /\ t.amount = data.amount
        /\ t.type = data.type
        /\ t.category = data.category

is_duplicate_transaction(rows, data) ==
    \E t \in rows :
        /\ t.amount = data.amount
        /\ t.type = data.type
        /\ t.category = data.category
        /\ t.date * TICK_HOURS >= now * TICK_HOURS - DUP_WINDOW_HOURS

(***************************************************************************)
(* handle_asset_update on the session: rows 1..persisted are loaded rows   *)
(* (with the session's pending changes), the rest are pending new rows,    *)
(* which a query does not see (autoflush=False).  The loop stops at the    *)
(* first balance float() rejects: the exception leaves the function.       *)
(***************************************************************************)
\* variant: only an equal balance is left alone
Unchanged_Exact(current, reported) == current = reported

\* abs(asset.balance - new_balance) < 0.01
Unchanged(current, reported) == Abs(current - reported) < EPSILON

RECURSIVE handle_asset_update(_, _, _)
handle_asset_update(session, persisted, assets_data) ==
    IF assets_data = <<>> \/ session.raised
    THEN session
    ELSE LET item == Head(assets_data)
             rest == Tail(assets_data)
             asset == ExactMatch(SubSeq(session.rows, 1, persisted), item.name)
         IN  IF item.name = EMPTY
             THEN handle_asset_update(session, persisted, rest)
             ELSE IF ~item.numeric
             THEN [session EXCEPT !.raised = TRUE]
             ELSE IF asset # 0
             THEN IF Unchanged(session.rows[asset].balance, item.balance)
                  THEN handle_asset_update(
                           [session EXCEPT !.skipped = Append(@, item.name)],
                           persisted, rest)
                  ELSE handle_asset_update(
                           [session EXCEPT
                               !.rows[asset].balance = item.balance,
                               !.rows[asset].category =
                                   IF item.category # "-" THEN item.category ELSE @,
                               !.rows[asset].currency =
                                   IF item.currency # "-" THEN item.currency ELSE @,
                               !.acct = Reset(@, asset, item.balance),
                               !.updated = Append(@, item.name)],
                           persisted, rest)
             ELSE handle_asset_update(
                      [session EXCEPT
                          !.rows = Append(@,
                              Asset(item.name, "LIQUID", item.balance,
                                    IF item.category # "-" THEN item.category
                                    ELSE "OTHERS",
                                    IF item.currency # "-" THEN item.currency
                                    ELSE "CNY",
                                    now)),
                          !.acct = Append(@, [base |-> item.balance, since |-> {}]),
                          !.updated = Append(@, item.name)],
                      persisted, rest)

\* the UNIQUE constraint on assets.name, checked when the session is flushed
UniqueNames(rows) ==
    \A i, j \in DOMAIN rows : rows[i].name = rows[j].name => i = j

(***************************************************************************)
(* handle_message -> handle_dual_intent: the result carries a transaction  *)
(* with an amount, or asset observations.                                  *)
(***************************************************************************)
\* variant: only transaction data counts
HasPayload_TxOnly(result) == result.tx # NoTx /\ result.tx.amount # 0

HasPayload(result) == (result.tx # NoTx /\ result.tx.amount # 0) \/ result.assets # <<>>

\* variant: the asset hint is followed even when the record is skipped
DualLinks_Always(records, tx_data) ==
    IF tx_data.asset_name # NoName THEN FirstILike(tx_data.asset_name) ELSE {0}

\* the asset the record is linked to: the hint is looked up only when the
\* transaction is recorded
DualLinks(records, tx_data) ==
    IF records /\ tx_data.asset_name # NoName
    THEN FirstILike(tx_data.asset_name) ELSE {0}

MsgDualIntent(result) ==
    /\ Classified
    /\ HasPayload(result)
    /\ ops < MaxOps
    /\ LET tx_data == result.tx
           has_tx == tx_data # NoTx /\ tx_data.amount # 0
           records == has_tx /\ ~is_duplicate_transaction(txs, tx_data)
           id == NextTxId(txs)
           new_tx(a) == Transaction(id, tx_data.amount, tx_data.category, tx_data.type,
                                    tx_data.description, a, "Auto")
       IN  \E a \in DualLinks(records, tx_data) :
             LET \* db.commit() right after db.add(new_tx)
                 committed_txs == IF records THEN txs \cup {new_tx(0)} ELSE txs
                 \* pending in the session: the link and the balance
                 session_txs == IF records THEN txs \cup {new_tx(a)} ELSE txs
                 session_assets ==
                     IF a = 0 THEN assets
                     ELSE Bump(assets, a,
                               DualDelta(assets[a].type, tx_data.type, tx_data.amount))
                 session_acct == IF records THEN Linked(acct, a, id) ELSE acct
                 upd == handle_asset_update(
                            [rows |-> session_assets, acct |-> session_acct,
                             updated |-> <<>>, skipped |-> <<>>, raised |-> FALSE],
                            Len(assets), result.assets)
                 \* the only later commit is the one of handle_asset_update
                 commits == /\ result.assets # <<>>
                            /\ ~upd.raised
                            /\ UniqueNames(upd.rows)
                 did == IF records
                        THEN DidRecord("dual", id, a, Len(result.assets))
                        ELSE [Did("dual", IF has_tx THEN "skipped_duplicate"
                                          ELSE "assets_only", 0, 0, 0)
                              EXCEPT !.obs = Len(result.assets)]
             IN  /\ assets' = IF commits THEN Flush(upd.rows) ELSE assets
                 /\ txs' = IF commits THEN session_txs ELSE committed_txs
                 /\ acct' = IF commits THEN upd.acct ELSE acct
                 /\ last' = [did EXCEPT
                        !.amount = tx_data.amount,
                        !.type = tx_data.type,
                        !.category = tx_data.category,
                        !.intent = result.intent,
                        !.observed = result.assets,
                        !.updated = IF commits THEN upd.updated ELSE <<>>,
                        !.skipped = IF commits THEN upd.skipped ELSE <<>>,
                        !.failed = result.assets # <<>> /\ ~commits]
    /\ ops' = ops + 1
    /\ UNCHANGED <<budgets, env, user_data, buttons, now>>

(***************************************************************************)
(* handle_message, DELETE intent                                           *)
(***************************************************************************)
\* Transaction.description.ilike(f"%{search_term}%")
Candidates(search_term) == {t \in txs : ILike(t.description, search_term)}

\* order_by(Transaction.id.desc())
RECURSIVE IdDesc(_)
IdDesc(ids) ==
    IF ids = {} THEN <<>> ELSE <<Max(ids)>> \o IdDesc(ids \ {Max(ids)})

\* for tx in candidates[:3]
TOP == 3
Listing(rows) ==
    LET ordered == IdDesc({t.id : t \in rows})
    IN  SubSeq(ordered, 1, IF Len(ordered) < TOP THEN Len(ordered) ELSE TOP)

MsgDelete(result) ==
    /\ Classified
    /\ ~HasPayload(result)
    /\ result.intent = "DELETE"
    /\ ops < MaxOps
    /\ LET candidates == Candidates(result.search_term)
           found ==
               IF result.target = "LAST"
               THEN (IF txs = {} THEN {} ELSE {TxById(txs, Max(TxIds))})
               ELSE IF result.target = "SEARCH" /\ result.search_term # EMPTY
                       /\ Cardinality(candidates) = 1
               THEN candidates
               ELSE {}
           ambiguous == /\ result.target = "SEARCH" /\ result.search_term # EMPTY
                        /\ Cardinality(candidates) > 1
       IN  IF found # {}
           THEN LET tx == CHOOSE t \in found : TRUE
                IN  /\ assets' =
                        IF tx.asset_id = 0 THEN assets
                        ELSE Flush(Bump(assets, tx.asset_id,
                                        IntentDeleteDelta(assets[tx.asset_id].type,
                                                          tx.type, tx.amount)))
                    /\ txs' = txs \ {tx}
                    /\ acct' = Unlinked(acct, tx.id)
                    /\ last' = [DidDelete("delete_intent", tx) EXCEPT
                                    !.term = result.search_term,
                                    !.intent = result.intent]
           ELSE /\ last' = [Did("delete_intent",
                                IF ambiguous THEN "ambiguous" ELSE "not_found", 0, 0, 0)
                            EXCEPT !.term = result.search_term,
                                   !.intent = result.intent,
                                   !.listed = IF ambiguous THEN Listing(candidates)
                                              ELSE <<>>]
                /\ UNCHANGED <<assets, txs, acct>>
    /\ ops' = ops + 1
    /\ UNCHANGED <<budgets, env, user_data, buttons, now>>

(***************************************************************************)
(* /history, then "Delete" (del_<id>) on one of the five rows that carry   *)
(* a button: the bot shows the "Yes, Delete" / "Cancel" pair.              *)
(***************************************************************************)
\* order_by(Transaction.date.desc()).limit(10), buttons for the first 5
HistoryButtons ==
    {S \in SUBSET txs :
        /\ Cardinality(S) = IF Cardinality(txs) < 5 THEN Cardinality(txs) ELSE 5
        /\ \A s \in S, t \in txs \ S : s.date >= t.date}

DelPress(tx_id) ==
    /\ NoDialog
    /\ \E S \in HistoryButtons : tx_id \in {t.id : t \in S}
    /\ buttons' = buttons \cup {tx_id}
    /\ UNCHANGED <<budgets, env, assets, txs, user_data, now, acct, ops, last>>

(***************************************************************************)
(* handle_callback, cancel_del                                             *)
(***************************************************************************)
CancelDel ==
    /\ buttons # {}
    /\ \E tx_id \in buttons : buttons' = buttons \ {tx_id}
    /\ UNCHANGED <<budgets, env, assets, txs, user_data, now, acct, ops, last>>

(***************************************************************************)
(* handle_callback, cfm_del_<id>                                           *)
(***************************************************************************)
CfmDel(tx_id) ==
    /\ tx_id \in buttons
    /\ ops < MaxOps
    /\ IF tx_id \in TxIds
       THEN LET tx == TxById(txs, tx_id)
            IN  /\ assets' =
                    IF tx.asset_id # 0 /\ tx.asset_id \in AssetIds
                    THEN Flush(Bump(assets, tx.asset_id,
                              RevertDelta(assets[tx.asset_id].type, tx.type, tx.amount)))
                    ELSE assets
                /\ txs' = txs \ {tx}
                /\ acct' = Unlinked(acct, tx.id)
                /\ last' = DidDelete("cfm_del", tx)
       ELSE /\ last' = Did("cfm_del", "not_found", 0, 0, 0)
            /\ UNCHANGED <<assets, txs, acct>>
    /\ buttons' = buttons \ {tx_id}
    /\ ops' = ops + 1
    /\ UNCHANGED <<budgets, env, user_data, now>>

(***************************************************************************)
(* Time passes (between dialogs; the clock matters once a transaction is   *)
(* stored).                                                                *)
(***************************************************************************)
Tick ==
    /\ now < MaxNow
    /\ NoDialog
    /\ txs # {}
    /\ now' = now + 1
    /\ UNCHANGED <<budgets, env, assets, txs, user_data, buttons, acct, ops, last>>

Next ==
    \/ \E n \in NameArgs, x \in SetAmounts, k \in KindArgs \cup {NoKind} : SetBalance(n, x, k)
    \/ \E x \in AddAmounts, c \in Categories, n \in NameArgs \cup {NoName} :
          Add(x, c, LUNCH, n)
    \/ \E f \in NameArgs, t \in NameArgs, x \in TransferAmounts : Transfer(f, t, x)
    \/ \E a \in AssetIds : UpdPress(a)
    \/ \E t \in Texts : MsgBalanceReply(TRUE, t)
    \/ \E t \in Texts : MsgLogDetails(TRUE, t)
    \/ \E r \in BOOLEAN : MsgMenuLog(r)
    \/ \E a \in AssetIds : SelSrc(a)
    \/ \E res \in Results : MsgDualIntent(res)
    \/ \E res \in Results : MsgDelete(res)
    \/ \E id \in TxIds : DelPress(id)
    \/ CancelDel
    \/ \E id \in buttons : CfmDel(id)
    \/ Tick

Spec == Init /\ [][Next]_vars

(***************************************************************************)
(* The commands and classified messages alone, with no dialog open and the *)
(* clock at rest.                                                          *)
(***************************************************************************)
NextCommands ==
    \/ \E n \in NameArgs, x \in SetAmounts, k \in KindArgs \cup {NoKind} : SetBalance(n, x, k)
    \/ \E x \in AddAmounts, c \in Categories, n \in NameArgs \cup {NoName} :
          Add(x, c, LUNCH, n)
    \/ \E f \in NameArgs, t \in NameArgs, x \in TransferAmounts : Transfer(f, t, x)
    \/ \E res \in Results : MsgDualIntent(res)
    \/ \E res \in Results : MsgDelete(res)

SpecCommands == Init /\ [][NextCommands]_vars

(***************************************************************************)
(* The auto-detected record on a store that already holds a transaction    *)
(* recorded by an earlier message: classifier results with amounts of      *)
(* either sign, with and without an asset hint and an observation, the     *)
(* DELETE intent, and the clock.                                           *)
(***************************************************************************)
AutoAmounts == {100, -100}

AutoTxData ==
    {[amount |-> x, type |-> t, category |-> "Food", description |-> LUNCH,
      asset_name |-> n] :
        x \in AutoAmounts, t \in TxTypes, n \in {VISA, NoName}}

AutoResults ==
    {[intent |-> "RECORD", tx |-> t, assets |-> o, target |-> "-",
      search_term |-> EMPTY] :
        t \in AutoTxData, o \in SeqsUpTo(Observations, MaxObs)}

\* the row an earlier auto-detected record left in the store
EarlierRow ==
    [id |-> 1, date |-> 0, amount |-> 100, category |-> "Food", type |-> "EXPENSE",
     description |-> LUNCH, asset_id |-> 0, raw_text |-> "Auto"]

InitRecorded ==
    /\ assets \in InitStores
    /\ budgets = {}
    /\ env = [DEFAULT_CURRENCY |-> "CNY", UTC_OFFSET |-> 0]
    /\ txs = {EarlierRow}
    /\ user_data = [expect_balance_for |-> 0, expect_log_details |-> FALSE,
                    log_data |-> NoLog]
    /\ buttons = {}
    /\ now = 0
    /\ acct = [a \in DOMAIN assets |-> [base |-> assets[a].balance, since |-> {}]]
    /\ ops = 0
    /\ last = NoLast

NextAuto ==
    \/ \E res \in AutoResults : MsgDualIntent(res)
    \/ \E res \in Deletes : MsgDelete(res)
    \/ Tick

SpecAuto == InitRecorded /\ [][NextAuto]_vars

(***************************************************************************)
(* Asset observations alone (intent UPDATE_ASSET): balances one and two    *)
(* units (0.005 and 0.01) away from the stored one, with and without a     *)
(* category and a currency, names that are a part or a case variant of a   *)
(* stored name, a balance that is no number; one or two observations per   *)
(* message.  The store was written one tick before the messages arrive,    *)
(* and DEFAULT_CURRENCY is unset (CNY) or set to USD.                      *)
(***************************************************************************)
ObservationItems ==
    {Observation(ALIPAY, 1001, TRUE, "FUND", "USD"),
     Observation(ALIPAY, 1002, TRUE, "FUND", "USD"),
     Observation(ALIPAY, 900, TRUE, "-", "-"),
     Observation(VISA, 500, TRUE, "-", "-"),
     Observation(PAY, 900, TRUE, "-", "-"),
     Observation(ALIPAY_LOWER, 900, TRUE, "FUND", "-"),
     Observation(PAY, 900, FALSE, "-", "-")}

Batches ==
    {<<x>> : x \in ObservationItems} \cup
    {<<x, y>> : x \in ObservationItems, y \in ObservationItems}

AssetResults ==
    {[intent |-> "UPDATE_ASSET", tx |-> NoTx, assets |-> b, target |-> "-",
      search_term |-> EMPTY] : b \in Batches}

DefaultCurrencies == {"CNY", "USD"}

InitConfigured ==
    /\ assets \in InitStores
    /\ budgets = {}
    /\ env \in [DEFAULT_CURRENCY : DefaultCurrencies, UTC_OFFSET : {0}]
    /\ txs = {}
    /\ user_data = [expect_balance_for |-> 0, expect_log_details |-> FALSE,
                    log_data |-> NoLog]
    /\ buttons = {}
    /\ now = 1
    /\ acct = [a \in DOMAIN assets |-> [base |-> assets[a].balance, since |-> {}]]
    /\ ops = 0
    /\ last = NoLast

NextAssets == \E res \in AssetResults : MsgDualIntent(res)

SpecAssets == InitConfigured /\ [][NextAssets]_vars

(***************************************************************************)
(* Deletion by search term on a history of up to four stored transactions  *)
(* (none linked to an asset): the terms are parts of the descriptions,     *)
(* with and without the characters % and _.                                *)
(***************************************************************************)
StoredRows ==
    {[id |-> 1, date |-> 0, amount |-> 100, category |-> "Food", type |-> "EXPENSE",
      description |-> LUNCH, asset_id |-> 0, raw_text |-> "Manual"],
     [id |-> 2, date |-> 0, amount |-> 200, category |-> "Food", type |-> "EXPENSE",
      description |-> LAUNCH, asset_id |-> 0, raw_text |-> "Manual"],
     [id |-> 3, date |-> 0, amount |-> 100, category |-> "Food", type |-> "EXPENSE",
      description |-> LUNCH, asset_id |-> 0, raw_text |-> "Auto"],
     [id |-> 4, date |-> 0, amount |-> 300, category |-> "Food", type |-> "EXPENSE",
      description |-> LUNCH, asset_id |-> 0, raw_text |-> "Guided"]}

SearchTerms == {LUN, NCH, L_NCH, PERCENT, PAY}

SearchDeletes ==
    {[intent |-> "DELETE", tx |-> NoTx, assets |-> <<>>, target |-> "SEARCH",
      search_term |-> t] : t \in SearchTerms}

InitHistory ==
    /\ assets \in InitStores
    /\ budgets = {}
    /\ env = [DEFAULT_CURRENCY |-> "CNY", UTC_OFFSET |-> 0]
    /\ txs \in SUBSET StoredRows
    /\ user_data = [expect_balance_for |-> 0, expect_log_details |-> FALSE,
                    log_data |-> NoLog]
    /\ buttons = {}
    /\ now = 0
    /\ acct = [a \in DOMAIN assets |-> [base |-> assets[a].balance, since |-> {}]]
    /\ ops = 0
    /\ last = NoLast

NextSearch == \E res \in SearchDeletes : MsgDelete(res)

SpecSearch == InitHistory /\ [][NextSearch]_vars

(***************************************************************************)
(* FinanceAnalyzer.  Stored dates are datetime.utcnow() values, in ticks;  *)
(* the analyzer reads datetime.now(), the local wall clock, which is       *)
(* UTC_OFFSET hours away.  Times are compared in hours; the calendar has   *)
(* months of 30 days starting at hour 0.  A quotient is kept exact, as a   *)
(* reduced fraction.                                                       *)
(***************************************************************************)
Hours(ticks) == ticks * TICK_HOURS

\* datetime.now()
LocalNow == Hours(now) + env.UTC_OFFSET

\* variant: the whole history counts
StartOfMonth_Epoch(h) == 0

\* now.replace(day=1, hour=0, minute=0, second=0, microsecond=0)
StartOfMonth(h) == h - (h % (30 * 24))

\* now.day
DayOfMonth(h) == ((h % (30 * 24)) \div 24) + 1

RECURSIVE GCD(_, _)
GCD(a, b) == IF b = 0 THEN a ELSE GCD(b, a % b)

\* a / b, b # 0
Quotient(a, b) ==
    LET g == GCD(Abs(a), Abs(b))
        sign == IF b < 0 THEN -1 ELSE 1
    IN  [n |-> sign * (a \div g), d |-> sign * (b \div g)]

RECURSIVE Total(_)
\* sum(t.amount for t in txs)
Total(rows) ==
    IF rows = {} THEN 0
    ELSE LET t == CHOOSE r \in rows : TRUE IN t.amount + Total(rows \ {t})

\* _aggr_transactions
aggr_transactions(rows, local) ==
    LET total_income == Total({t \in rows : t.type = "INCOME"})
        total_expense == Total({t \in rows : t.type = "EXPENSE"})
        days_passed == DayOfMonth(local)
        net_savings == total_income - total_expense
    IN  [total_income |-> total_income,
         total_expense |-> total_expense,
         net_savings |-> net_savings,
         savings_rate |-> IF total_income > 0
                          THEN Quotient(net_savings * 100, total_income)
                          ELSE Quotient(0, 1),
         daily_average |-> IF days_passed > 0
                           THEN Quotient(total_expense, days_passed)
                           ELSE Quotient(0, 1)]

get_monthly_summary ==
    aggr_transactions({t \in txs : Hours(t.date) >= StartOfMonth(LocalNow)}, LocalNow)

\* the trend line of get_weekly_trend
Trend(txs_current, txs_prev) ==
    IF txs_prev = 0
    THEN [available |-> FALSE, percent |-> Quotient(0, 1), direction |-> "-"]
    ELSE LET diff == txs_current - txs_prev
             percent_change == Quotient(diff * 100, txs_prev)
         IN  [available |-> TRUE,
              percent |-> [percent_change EXCEPT !.n = Abs(@)],
              direction |-> IF diff > 0 THEN "up" ELSE "down"]

get_weekly_trend ==
    LET last_7_days == LocalNow - 7 * 24
        prev_7_days == last_7_days - 7 * 24
        txs_current == Total({t \in txs : /\ Hours(t.date) >= last_7_days
                                          /\ t.type = "EXPENSE"})
        txs_prev == Total({t \in txs : /\ Hours(t.date) >= prev_7_days
                                       /\ Hours(t.date) < last_7_days
                                       /\ t.type = "EXPENSE"})
    IN  [this_week |-> txs_current, last_week |-> txs_prev,
         trend |-> Trend(txs_current, txs_prev)]

\* variant: no asset is a liability
Liabilities_None(rows) == {}

\* the assets the wallet overview lists as liabilities
Liabilities(rows) == {a \in DOMAIN rows : rows[a].type = "CREDIT"}

\* variant: what is owed is taken off
Net_Owed(rows, a) ==
    IF rows[a].type = "CREDIT" THEN -rows[a].balance ELSE rows[a].balance

\* a.balance, as the asset summary adds it
Net(rows, a) == rows[a].balance

RECURSIVE Balance(_, _)
\* sum(a.balance for a in assets), over the rows with the given ids
Balance(rows, ids) ==
    IF ids = {} THEN 0
    ELSE LET a == CHOOSE i \in ids : TRUE IN rows[a].balance + Balance(rows, ids \ {a})

RECURSIVE NetBalance(_, _)
NetBalance(rows, ids) ==
    IF ids = {} THEN 0
    ELSE LET a == CHOOSE i \in ids : TRUE IN Net(rows, a) + NetBalance(rows, ids \ {a})

get_asset_summary ==
    LET cat(a) == IF assets[a].category = "" THEN "OTHERS" ELSE assets[a].category
    IN  [total_asset_balance |-> NetBalance(assets, AssetIds),
         asset_distribution |->
            [c \in {cat(a) : a \in AssetIds} |->
                Balance(assets, {a \in AssetIds : cat(a) = c})]]

\* int(x) of the quotient n / d, d # 0: truncation towards zero
int(n, d) ==
    LET q == Abs(n) \div Abs(d)
    IN  IF (n < 0) = (d < 0) THEN q ELSE -q

\* _generate_progress_bar: "[:(]" for a total of 0, else `filled` full and
\* `empty` empty cells (a string repeated a negative number of times is
\* empty)
generate_progress_bar(current, total, length) ==
    IF total = 0 THEN [cells |-> FALSE, filled |-> 0, empty |-> 0]
    ELSE LET filled == Min({int(current * length, total), length})
             empty == length - filled
         IN  [cells |-> TRUE, filled |-> Max({0, filled}), empty |-> Max({0, empty})]

\* variant: only a limit of 0 is shown as 100
Percent_ZeroOnly(spent, limit) ==
    IF limit # 0 THEN Quotient(spent * 100, limit) ELSE Quotient(100, 1)

\* (spent / limit) * 100 if limit > 0 else 100
Percent(spent, limit) ==
    IF limit > 0 THEN Quotient(spent * 100, limit) ELSE Quotient(100, 1)

\* get_budget_status: one entry per budget, or the hint that none is set
get_budget_status ==
    IF budgets = {} THEN [kind |-> "no_budgets"]
    ELSE LET start_of_month == StartOfMonth(LocalNow)
             usage(c) == Total({t \in txs : /\ Hours(t.date) >= start_of_month
                                            /\ t.type = "EXPENSE"
                                            /\ t.category = c})
             entry(b) ==
                LET spent == usage(b.category)
                    limit == b.limit_amount
                    percent == Percent(spent, limit)
                IN  [category |-> b.category, spent |-> spent, limit |-> limit,
                     percent |-> percent,
                     bar |-> generate_progress_bar(spent, limit, 10),
                     alert |-> percent.n >= b.alert_threshold * percent.d]
         IN  [kind |-> "budget_status",
              entries |-> [id \in {b.id : b \in budgets} |->
                             entry(CHOOSE b \in budgets : b.id = id)]]

\* get_category_spending: this month's EXPENSE rows whose category matches
\* the pattern %category_name%
get_category_spending(category_name) ==
    [kind |-> "category_spending", category |-> category_name,
     total |-> Total({t \in txs : /\ Hours(t.date) >= StartOfMonth(LocalNow)
                                  /\ ILike(Spelling(t.category), Spelling(category_name))
                                  /\ t.type = "EXPENSE"})]

\* format_summary_text: the figures of the summary and of the assets
format_summary_text(data) ==
    [kind |-> "summary", stats |-> data, assets |-> get_asset_summary]

\* variant: the session of the analyzer drops what it has read
Aggregated_Purging(op, outcome, intent, report) ==
    /\ last' = [Did(op, outcome, 0, 0, 0) EXCEPT !.intent = intent, !.report = report]
    /\ ops' = ops + 1
    /\ txs' = {}
    /\ UNCHANGED <<assets, budgets, env, user_data, buttons, now, acct>>

\* a handler that only reads through FinanceAnalyzer and replies: the
\* analyzer queries its session and never adds, deletes or commits
Aggregated(op, outcome, intent, report) ==
    /\ last' = [Did(op, outcome, 0, 0, 0) EXCEPT !.intent = intent, !.report = report]
    /\ ops' = ops + 1
    /\ UNCHANGED <<assets, budgets, env, txs, user_data, buttons, now, acct>>

(***************************************************************************)
(* /report, and the menu buttons Report and Analytics                      *)
(***************************************************************************)
Report ==
    /\ ops < MaxOps
    /\ LET stats == get_monthly_summary
           summary_text == format_summary_text(stats)
           no_data == stats.total_income = 0 /\ stats.total_expense = 0
       IN  IF no_data THEN Aggregated("report", "no_data", "-", [kind |-> "no_data"])
           ELSE Aggregated("report", "reported", "-",
                           [kind |-> "report", stats |-> stats,
                            assets |-> summary_text.assets,
                            weekly |-> get_weekly_trend])

(***************************************************************************)
(* /wallet, and the menu button Wallet                                     *)
(***************************************************************************)
Wallet ==
    /\ ops < MaxOps
    /\ LET debts == Liabilities(assets)
           investments == {a \in AssetIds \ debts : assets[a].type = "INVESTMENT"}
           total_liquid == Balance(assets, (AssetIds \ debts) \ investments)
           total_debt == Balance(assets, debts)
           total_invest == Balance(assets, investments)
       IN  last' = IF AssetIds = {}
                   THEN [Did("wallet", "no_assets", 0, 0, 0)
                         EXCEPT !.report = [kind |-> "no_assets"]]
                   ELSE [Did("wallet", "shown", 0, 0, 0)
                         EXCEPT !.report =
                            [kind |-> "wallet", total_liquid |-> total_liquid,
                             total_invest |-> total_invest, total_debt |-> total_debt,
                             net_worth |-> (total_liquid + total_invest) - total_debt]]
    /\ ops' = ops + 1
    /\ UNCHANGED <<assets, budgets, env, txs, user_data, buttons, now, acct>>

(***************************************************************************)
(* handle_message from the classifier call on: analyze_input turns the     *)
(* response of the external model into a result, handle_dual_intent takes  *)
(* it when it carries data, and otherwise the intent decides.  A response  *)
(* is the model's answer (kind json), an answer json.loads rejects (kind   *)
(* unparsable), or none because the call raised (kind raises); `result` is *)
(* what the answer says or was meant to say.                               *)
(***************************************************************************)
Replying(r, reply) ==
    [intent |-> r.intent, tx |-> r.tx, assets |-> r.assets, target |-> r.target,
     search_term |-> r.search_term, reply |-> reply]

Response(kind, result) == [kind |-> kind, result |-> result]

\* except Exception: return {"intent": "CHAT", "reply": "Error analyzing input: ..."}
Fallback ==
    [intent |-> "CHAT", tx |-> NoTx, assets |-> <<>>, target |-> "-",
     search_term |-> EMPTY, reply |-> "Error analyzing input"]

\* variant: the answer is used whatever the call did
analyze_input_Lenient(response) == response.result

analyze_input(response) ==
    IF response.kind = "json" THEN response.result ELSE Fallback

\* CASE 2: QUERY reads the store and answers
MsgQuery(result) ==
    /\ Classified
    /\ ~HasPayload(result)
    /\ result.intent = "QUERY"
    /\ ops < MaxOps
    /\ LET specific_category ==
              IF "specific_category" \in DOMAIN result THEN result.specific_category
              ELSE "-"
       IN  Aggregated("query", "answered", result.intent,
                      IF specific_category # "-"
                      THEN get_category_spending(specific_category)
                      ELSE format_summary_text(get_monthly_summary))

\* CASE 4: CHAT, and any other intent: result.get("reply", "I'm here to help ...")
MsgChat(result) ==
    /\ Classified
    /\ ~HasPayload(result)
    /\ result.intent \notin {"QUERY", "DELETE"}
    /\ ops < MaxOps
    /\ last' = [Did("chat", "replied", 0, 0, 0) EXCEPT
                    !.intent = result.intent,
                    !.reply = IF result.reply = "-" THEN "I'm here to help"
                              ELSE result.reply]
    /\ ops' = ops + 1
    /\ UNCHANGED <<assets, budgets, env, txs, user_data, buttons, now, acct>>

HandleMessage(response) ==
    LET result == analyze_input(response)
    IN  \/ MsgDualIntent(result)
        \/ MsgQuery(result)
        \/ MsgDelete(result)
        \/ MsgChat(result)

Intents == {"RECORD", "QUERY", "DELETE", "CHAT"}

\* every intent with and without transaction data and observations, and a
\* chat that brings no reply text
IntentResults ==
    {[intent |-> i, tx |-> t, assets |-> o, target |-> "LAST", search_term |-> EMPTY,
      reply |-> "text"] :
        i \in Intents,
        t \in {NoTx,
                [amount |-> 100, type |-> "EXPENSE", category |-> "Food",
                 description |-> LUNCH, asset_name |-> ALI]},
        o \in SeqsUpTo(Observations, 1)}
    \cup {[Fallback EXCEPT !.reply = "-"]}

Responses ==
    {Response(k, r) : k \in {"json", "unparsable", "raises"}, r \in IntentResults}

NextIntents == \E response \in Responses : HandleMessage(response)

SpecIntents == InitRecorded /\ [][NextIntents]_vars

(***************************************************************************)
(* The commands as they arrive: context.args is a list of words.  An       *)
(* argument list is a record of its length and of the words by position;   *)
(* the positions past the length are not there and are never read.  A word *)
(* in an amount position is a number or not (float() raises).              *)
(***************************************************************************)
Num(n) == [numeric |-> TRUE, n |-> n]
NotANumber == [numeric |-> FALSE, n |-> 0]

\* variant: float() takes any word (as zero)
Numeric_Always(word) == TRUE

\* float(word) succeeds
Numeric(word) == word.numeric

\* a reply that ends the handler before anything is written
Replied(op, outcome) ==
    /\ last' = Did(op, outcome, 0, 0, 0)
    /\ ops' = ops + 1
    /\ UNCHANGED <<assets, budgets, env, txs, user_data, buttons, now, acct>>

\* handle_add_command
CmdAdd(args) ==
    /\ ops < MaxOps
    /\ IF args.len < 3 THEN Replied("add", "usage")
       ELSE IF ~Numeric(args.amount) THEN Replied("add", "error")
       ELSE Add(args.amount.n, args.category, args.desc,
                IF args.len > 3 THEN args.asset ELSE NoName)

\* handle_setbalance_command
CmdSetBalance(args) ==
    /\ ops < MaxOps
    /\ IF args.len < 2 THEN Replied("setbalance", "usage")
       ELSE IF ~Numeric(args.amount) THEN Replied("setbalance", "error")
       ELSE SetBalance(args.name, args.amount.n,
                       IF args.len > 2 THEN args.kind ELSE NoKind)

\* handle_transfer_command
CmdTransfer(args) ==
    /\ ops < MaxOps
    /\ IF args.len < 3 THEN Replied("transfer", "usage")
       ELSE IF ~Numeric(args.amount) THEN Replied("transfer", "error")
       ELSE Transfer(args.from, args.to, args.amount.n)

\* a budget row; alert_threshold, 0.8 by default, in hundredths
Budget(id, category, limit_amount) ==
    [id |-> id, category |-> category, limit_amount |-> limit_amount,
     alert_threshold |-> 80, updated_at |-> now]


\* handle_budget_command: no argument shows the status, two set the limit
\* of the budget Budget.category.ilike(category) finds, or add a budget
CmdBudget(args) ==
    /\ ops < MaxOps
    /\ IF args.len = 0
       THEN Aggregated("budget", "status", "-", get_budget_status)
       ELSE IF args.len < 2 THEN Replied("budget", "usage")
       ELSE IF ~Numeric(args.limit) THEN Replied("budget", "error")
       ELSE LET found == {b \in budgets :
                            Like(LowerStr(Spelling(b.category)),
                                 LowerStr(Spelling(args.category)))}
                limit == args.limit.n
            IN  /\ IF found # {}
                   THEN \E budget \in found :
                          budgets' = (budgets \ {budget}) \cup
                            {IF budget.limit_amount = limit THEN budget
                             ELSE [budget EXCEPT !.limit_amount = limit,
                                                 !.updated_at = now]}
                   ELSE budgets' = budgets \cup
                          {Budget(Max({0} \cup {b.id : b \in budgets}) + 1,
                                  args.category, limit)}
                /\ last' = Did("budget", "set", 0, 0, 0)
                /\ ops' = ops + 1
                /\ UNCHANGED <<assets, env, txs, user_data, buttons, now, acct>>

AddArgs ==
    {[len |-> l, amount |-> x, category |-> "Food", desc |-> LUNCH, asset |-> ALI] :
        l \in 0..4, x \in {Num(100), NotANumber}}

SetBalanceArgs ==
    {[len |-> l, name |-> ALI, amount |-> x, kind |-> "CREDIT"] :
        l \in 0..3, x \in {Num(700), NotANumber}}

TransferArgs ==
    {[len |-> l, from |-> ALI, to |-> VISA, amount |-> x] :
        l \in 0..3, x \in {Num(200), NotANumber}}

BudgetArgs ==
    {[len |-> l, category |-> c, limit |-> x] :
        l \in 0..2, c \in {"Food", "food"}, x \in {Num(1000), Num(2000), NotANumber}}

NextValidation ==
    \/ \E args \in AddArgs : CmdAdd(args)
    \/ \E args \in SetBalanceArgs : CmdSetBalance(args)
    \/ \E args \in TransferArgs : CmdTransfer(args)
    \/ \E args \in BudgetArgs : CmdBudget(args)

SpecValidation == Init /\ [][NextValidation]_vars

(***************************************************************************)
(* The reports over a stored history: a ledger of dated rows, a clock on   *)
(* the tenth or the first day of a month, and the zone the host runs in.   *)
(* An auto-detected record stores the amount as the classifier gave it, so *)
(* a stored amount can be negative.                                        *)
(***************************************************************************)
LedgerRows ==
    {[id |-> 1, date |-> 36, amount |-> 1000000, category |-> "Salary",
      type |-> "INCOME", description |-> PAY, asset_id |-> 0, raw_text |-> "Manual"],
     [id |-> 2, date |-> 35, amount |-> 200000, category |-> "Food",
      type |-> "EXPENSE", description |-> LUNCH, asset_id |-> 0, raw_text |-> "Manual"],
     [id |-> 3, date |-> 30, amount |-> 100000, category |-> "Food",
      type |-> "EXPENSE", description |-> LUNCH, asset_id |-> 0, raw_text |-> "Manual"],
     [id |-> 4, date |-> 26, amount |-> 50000, category |-> "Food",
      type |-> "EXPENSE", description |-> LUNCH, asset_id |-> 0, raw_text |-> "Manual"],
     [id |-> 5, date |-> 20, amount |-> 30000, category |-> "Food",
      type |-> "EXPENSE", description |-> LUNCH, asset_id |-> 0, raw_text |-> "Manual"],
     [id |-> 6, date |-> 31, amount |-> -150000, category |-> "Food",
      type |-> "EXPENSE", description |-> LUNCH, asset_id |-> 0, raw_text |-> "Auto"]}

UtcOffsets == {-5, 0, 8}

InitLedger ==
    /\ assets \in InitStores
    /\ budgets = {}
    /\ env \in [DEFAULT_CURRENCY : {"CNY"}, UTC_OFFSET : UtcOffsets]
    /\ now \in {29, 38}
    /\ txs \in SUBSET {r \in LedgerRows : r.date <= now}
    /\ user_data = [expect_balance_for |-> 0, expect_log_details |-> FALSE,
                    log_data |-> NoLog]
    /\ buttons = {}
    /\ acct = [a \in DOMAIN assets |-> [base |-> assets[a].balance, since |-> {}]]
    /\ ops = 0
    /\ last = NoLast

ReportAdds ==
    {[len |-> 3, amount |-> Num(x), category |-> "Food", desc |-> LUNCH, asset |-> ALI] :
        x \in {-20000, 100}}

NextReports ==
    \/ \E args \in ReportAdds : CmdAdd(args)
    \/ Report

SpecReports == InitLedger /\ [][NextReports]_vars

(***************************************************************************)
(* The budgets over a stored history.                                      *)
(***************************************************************************)
BudgetRows ==
    {[id |-> 1, date |-> 36, amount |-> 20000, category |-> "Food",
      type |-> "EXPENSE", description |-> LUNCH, asset_id |-> 0, raw_text |-> "Manual"],
     [id |-> 2, date |-> 35, amount |-> 20000, category |-> "Food",
      type |-> "EXPENSE", description |-> LUNCH, asset_id |-> 0, raw_text |-> "Manual"],
     [id |-> 3, date |-> 26, amount |-> 8000, category |-> "Food",
      type |-> "EXPENSE", description |-> LUNCH, asset_id |-> 0, raw_text |-> "Manual"],
     [id |-> 4, date |-> 36, amount |-> 4000, category |-> "food",
      type |-> "EXPENSE", description |-> LUNCH, asset_id |-> 0, raw_text |-> "Manual"],
     [id |-> 5, date |-> 36, amount |-> 20000, category |-> "Food",
      type |-> "INCOME", description |-> PAY, asset_id |-> 0, raw_text |-> "Manual"]}

StoredBudgets ==
    {{}, {[id |-> 1, category |-> "Food", limit_amount |-> 40000,
           alert_threshold |-> 80, updated_at |-> 0]}}

InitBudgets ==
    /\ assets = <<>>
    /\ budgets \in StoredBudgets
    /\ env = [DEFAULT_CURRENCY |-> "CNY", UTC_OFFSET |-> 0]
    /\ now = 38
    /\ txs \in SUBSET BudgetRows
    /\ user_data = [expect_balance_for |-> 0, expect_log_details |-> FALSE,
                    log_data |-> NoLog]
    /\ buttons = {}
    /\ acct = <<>>
    /\ ops = 0
    /\ last = NoLast

BudgetSettings ==
    {[len |-> l, category |-> c, limit |-> Num(x)] :
        l \in {0, 2}, c \in {"Food", "food", "E'picerie", "e'picerie"},
        x \in {40000, 50000, 0, -40000}}

NextBudgets ==
    \/ \E args \in BudgetSettings : CmdBudget(args)
    \/ \E args \in ReportAdds : CmdAdd(args)

SpecBudgets == InitBudgets /\ [][NextBudgets]_vars

(***************************************************************************)
(* The asset views: stores of every kind, observed and set balances, the   *)
(* report and the wallet overview.                                         *)
(***************************************************************************)
WalletObservations ==
    {Observation(ALIPAY, 1001, TRUE, "FUND", "USD"),
     Observation(VISA, 500, TRUE, "-", "-"),
     Observation(PAY, 900, TRUE, "-", "-")}

WalletResults ==
    {[intent |-> "UPDATE_ASSET", tx |-> NoTx, assets |-> b, target |-> "-",
      search_term |-> EMPTY] :
        b \in {<<x>> : x \in WalletObservations} \cup
              {<<x, y>> : x \in WalletObservations, y \in WalletObservations}}

WalletSets ==
    {[len |-> 3, name |-> n, amount |-> Num(700), kind |-> k] :
        n \in {ALI, LUN}, k \in {"CREDIT", "INVESTMENT", "SAVINGS"}}

InitWallet ==
    /\ assets \in InitStores
    /\ budgets = {}
    /\ env = [DEFAULT_CURRENCY |-> "CNY", UTC_OFFSET |-> 0]
    /\ txs \in SUBSET {[id |-> 1, date |-> 0, amount |-> 100, category |-> "Food",
                        type |-> "EXPENSE", description |-> LUNCH, asset_id |-> 0,
                        raw_text |-> "Manual"]}
    /\ user_data = [expect_balance_for |-> 0, expect_log_details |-> FALSE,
                    log_data |-> NoLog]
    /\ buttons = {}
    /\ now = 1
    /\ acct = [a \in DOMAIN assets |-> [base |-> assets[a].balance, since |-> {}]]
    /\ ops = 0
    /\ last = NoLast

NextWallet ==
    \/ \E res \in WalletResults : MsgDualIntent(res)
    \/ \E args \in WalletSets : CmdSetBalance(args)
    \/ Report
    \/ Wallet

SpecWallet == InitWallet /\ [][NextWallet]_vars

(***************************************************************************)
(* The aggregation calls, in any order, between records: the report, the   *)
(* budget status and the classifier's QUERY intent.                        *)
(***************************************************************************)
Queries ==
    {[intent |-> "QUERY", tx |-> NoTx, assets |-> <<>>, target |-> "-",
      search_term |-> EMPTY, reply |-> "-", specific_category |-> c] :
        c \in {"-", "Food", "food"}}

InitAggregation ==
    /\ assets \in InitStores
    /\ budgets \in StoredBudgets
    /\ env = [DEFAULT_CURRENCY |-> "CNY", UTC_OFFSET |-> 0]
    /\ now = 38
    /\ txs \in SUBSET {r \in LedgerRows : r.id \in {1, 2}}
    /\ user_data = [expect_balance_for |-> 0, expect_log_details |-> FALSE,
                    log_data |-> NoLog]
    /\ buttons = {}
    /\ acct = [a \in DOMAIN assets |-> [base |-> assets[a].balance, since |-> {}]]
    /\ ops = 0
    /\ last = NoLast

NextAggregation ==
    \/ Report
    \/ \E args \in BudgetSettings : args.len = 0 /\ CmdBudget(args)
    \/ \E result \in Queries : MsgQuery(result)
    \/ \E args \in ReportAdds : CmdAdd(args)

SpecAggregation == InitAggregation /\ [][NextAggregation]_vars

(***************************************************************************)
(* Two sessions.  get_db() gives every handler call a session of its own   *)
(* (SessionLocal()); a session loads the rows it queries, the handler      *)
(* changes the loaded objects, and db.commit() writes for each changed     *)
(* row an UPDATE that sets the column to the value the session computed,   *)
(* whatever the table holds by then.  No row carries a version and no      *)
(* query locks.  The bot's dispatcher runs one handler at a time; two      *)
(* sessions overlap when two processes work on the database file.          *)
(***************************************************************************)
SessionOps ==
    {[kind |-> "add", amount |-> x, name |-> ALI, to |-> NoName, tx |-> 0] :
        x \in AddAmounts} \cup
    {[kind |-> "transfer", amount |-> 200, name |-> ALI, to |-> VISA, tx |-> 0]} \cup
    {[kind |-> "delete", amount |-> 0, name |-> NoName, to |-> NoName, tx |-> 1]}

\* what a session that has loaded the current store holds when it reaches
\* db.commit(): the balances it changed, the rows it added (numbered from
\* 0, the ids are given at the INSERT) and the ids of the rows it deleted
Written(op) ==
    LET found(name) == CHOOSE a \in FirstILike(name) : TRUE
        changed(rows) == {a \in AssetIds : rows[a].balance # assets[a].balance}
        work(rows, added, deleted) ==
            [balances |-> [a \in changed(rows) |-> rows[a].balance],
             added |-> added, deleted |-> deleted]
    IN  IF op.kind = "add"
        THEN LET a == found(op.name)
                 tx_type == IF op.amount > 0 THEN "INCOME" ELSE "EXPENSE"
                 abs_amount == Abs(op.amount)
             IN  work(IF a = 0 THEN assets
                      ELSE Bump(assets, a, AddDelta(assets[a].type, tx_type, abs_amount)),
                      {Transaction(0, abs_amount, "Food", tx_type, LUNCH, a, "Manual")},
                      {})
        ELSE IF op.kind = "transfer"
        THEN LET from_asset == found(op.name)
                 to_asset == found(op.to)
             IN  IF from_asset = 0 \/ to_asset = 0 THEN work(assets, {}, {})
                 ELSE work(TransferBalances(assets, from_asset, to_asset, op.amount),
                           TransferRows(assets, 0, from_asset, to_asset, op.amount),
                           {})
        ELSE IF op.tx \in TxIds
        THEN LET tx == TxById(txs, op.tx)
             IN  work(IF tx.asset_id # 0 /\ tx.asset_id \in AssetIds
                      THEN Bump(assets, tx.asset_id,
                                RevertDelta(assets[tx.asset_id].type, tx.type, tx.amount))
                      ELSE assets,
                      {}, {op.tx})
        ELSE work(assets, {}, {})

\* variant: the UPDATE adds the session's change to the stored balance
Commit_Relative(store, work) ==
    [assets |-> [a \in DOMAIN store.assets |->
                    IF a \in DOMAIN work.balances
                    THEN [store.assets[a] EXCEPT
                            !.balance = @ + (work.balances[a] - assets[a].balance),
                            !.updated_at = now]
                    ELSE store.assets[a]],
     txs |-> {t \in store.txs : t.id \notin work.deleted} \cup
             {[r EXCEPT !.id = NextTxId(store.txs) + r.id] : r \in work.added}]

\* db.commit() on the table as it is by then; a DELETE that finds its row
\* gone fails the flush and the session leaves nothing
Commit(store, work) ==
    IF ~(work.deleted \subseteq {t.id : t \in store.txs}) THEN store
    ELSE [assets |-> [a \in DOMAIN store.assets |->
                        IF a \in DOMAIN work.balances
                        THEN [store.assets[a] EXCEPT !.balance = work.balances[a],
                                                    !.updated_at = now]
                        ELSE store.assets[a]],
          txs |-> {t \in store.txs : t.id \notin work.deleted} \cup
                  {[r EXCEPT !.id = NextTxId(store.txs) + r.id] : r \in work.added}]

\* two handler calls in two sessions: both load the store before either
\* commits, then the first commits, then the second
Concurrent(first, second) ==
    /\ ops < MaxOps
    /\ first.kind = "delete" \/ second.kind = "delete" => 1 \in buttons
    /\ LET result == Commit(Commit([assets |-> assets, txs |-> txs], Written(first)),
                            Written(second))
       IN  /\ assets' = result.assets
           /\ txs' = result.txs
           /\ acct' = [a \in DOMAIN acct |->
                         [acct[a] EXCEPT !.since =
                            {id \in @ : \E t \in result.txs : t.id = id} \cup
                            {t.id : t \in {r \in result.txs \ txs : r.asset_id = a}}]]
    /\ buttons' = IF first.kind = "delete" \/ second.kind = "delete"
                  THEN buttons \ {1} ELSE buttons
    /\ last' = Did("concurrent", "committed", 0, 0, 0)
    /\ ops' = ops + 1
    /\ UNCHANGED <<budgets, env, user_data, now>>

NextSessions ==
    \/ Add(-100, "Food", LUNCH, ALI)
    \/ \E id \in TxIds : DelPress(id)
    \/ \E first \in SessionOps, second \in SessionOps : Concurrent(first, second)

SpecSessions == Init /\ [][NextSessions]_vars

(***************************************************************************)
(* A transfer and the deletion of its rows.  The store is fresh, or holds  *)
(* what an earlier /transfer from the first account to the second left:    *)
(* the two balances changed and the two rows.                              *)
(***************************************************************************)
InitTransfers ==
    \/ Init
    \/ \E store \in InitStores \ {<<>>}, amount \in TransferAmounts :
        /\ now = 0
        /\ assets = TransferBalances(store, 1, 2, amount)
        /\ txs = TransferRows(store, 1, 1, 2, amount)
        /\ budgets = {}
        /\ env = [DEFAULT_CURRENCY |-> "CNY", UTC_OFFSET |-> 0]
        /\ user_data = [expect_balance_for |-> 0, expect_log_details |-> FALSE,
                        log_data |-> NoLog]
        /\ buttons = {}
        /\ acct = [a \in DOMAIN store |-> [base |-> store[a].balance, since |-> {a}]]
        /\ ops = 0
        /\ last = [Did("transfer", "ok", 1, 1, 2) EXCEPT !.amount = amount]

\* /transfer on a store without transactions, /history with its Delete
\* buttons, Cancel and the confirmation
NextTransfers ==
    \/ \E f \in NameArgs, t \in NameArgs, x \in TransferAmounts :
          txs = {} /\ Transfer(f, t, x)
    \/ \E id \in TxIds : DelPress(id)
    \/ CancelDel
    \/ \E id \in 1..2 : CfmDel(id)

SpecTransfers == InitTransfers /\ [][NextTransfers]_vars

(***************************************************************************)
(* Mixed input: one classifier result with a transaction that names an     *)
(* account and with an observation of the wallet, whose balance of 10.00   *)
(* becomes 9.00 or 11.00 with the transaction: observed balances equal to  *)
(* that, 0.005 above the stored balance, and 0.01 or more away.  The store *)
(* holds the row of an earlier record, which makes an equal expense of the *)
(* same day a duplicate.                                                   *)
(***************************************************************************)
MixedResults ==
    {[intent |-> "RECORD",
      tx |-> [amount |-> 100, type |-> t, category |-> "Food", description |-> LUNCH,
              asset_name |-> n],
      assets |-> o, target |-> "-", search_term |-> EMPTY] :
        t \in TxTypes, n \in NameArgs,
        o \in {<<Observation(ALIPAY, b, TRUE, "-", "-")>> :
                    b \in {900, 902, 1001, 1100}}}

NextMixed == \E res \in MixedResults : MsgDualIntent(res)

SpecMixed == InitRecorded /\ [][NextMixed]_vars

(***************************************************************************)
(* After a confirmed deletion.  Transaction 1, the latest of the store,    *)
(* was recorded on the first account and removed through "Yes, Delete";    *)
(* the /history list that showed it is still in the chat, and its Delete   *)
(* buttons still work: del_<id> looks nothing up and answers with a        *)
(* confirmation for whatever id the button carries.                        *)
(***************************************************************************)
DelPressListed(tx_id) ==
    /\ NoDialog
    /\ buttons' = buttons \cup {tx_id}
    /\ UNCHANGED <<budgets, env, assets, txs, user_data, now, acct, ops, last>>

InitConfirmed ==
    /\ assets \in InitStores
    /\ budgets = {}
    /\ env = [DEFAULT_CURRENCY |-> "CNY", UTC_OFFSET |-> 0]
    /\ txs = {}
    /\ user_data = [expect_balance_for |-> 0, expect_log_details |-> FALSE,
                    log_data |-> NoLog]
    /\ buttons = {}
    /\ now = 0
    /\ acct = [a \in DOMAIN assets |-> [base |-> assets[a].balance, since |-> {}]]
    /\ ops = 0
    /\ last = Did("cfm_del", "deleted", 1, IF assets = <<>> THEN 0 ELSE 1, 0)

NextConfirmations ==
    \/ \E x \in AddAmounts, n \in NameArgs \cup {NoName} : Add(x, "Food", LUNCH, n)
    \/ \E id \in TxIds : DelPress(id)
    \/ DelPressListed(1)
    \/ CancelDel
    \/ \E id \in 1..2 : CfmDel(id)

SpecConfirmations == InitConfirmed /\ [][NextConfirmations]_vars

(***************************************************************************)
(* The guided log alone: the menu button, the details, the source buttons  *)
(* (which stay in the chat and can be pressed again), and the clock.       *)
(***************************************************************************)
NextGuided ==
    \/ \E r \in BOOLEAN : MsgMenuLog(r)
    \/ \E t \in Texts : MsgLogDetails(TRUE, t)
    \/ \E a \in AssetIds : SelSrc(a)
    \/ Tick

SpecGuided == Init /\ [][NextGuided]_vars

(***************************************************************************)
(* Updates of another sender.  Every command handler and handle_message    *)
(* return at their first line when update.effective_user.id is not         *)
(* ALLOWED_USER_ID.  handle_callback has no such line, and main registers  *)
(* it without a filter: a button under a message of the bot works for      *)
(* whoever can press it (the members of a group the bot is used in).       *)
(* context.user_data is kept per sender, so upd_ sets expect_balance_for   *)
(* for a sender whose reply handle_message turns away, and sel_src_ finds  *)
(* no log_data for a sender who could not enter details.                   *)
(***************************************************************************)
OtherUpdates ==
    {[kind |-> k, id |-> i] :
        k \in {"command", "message", "upd", "sel_src", "del", "cancel_del", "cfm_del"},
        i \in 1..2}

FromOther(update) ==
    IF update.kind \in {"command", "message", "upd", "sel_src"}
    THEN UNCHANGED vars
    ELSE IF update.kind = "del" THEN DelPressListed(update.id)
    ELSE IF update.kind = "cancel_del" THEN CancelDel
    ELSE CfmDel(update.id)

\* the allowed user records and opens delete confirmations; the other
\* sender sends commands and messages and presses buttons
NextAuthorization ==
    \/ \E x \in AddAmounts, c \in Categories, n \in NameArgs \cup {NoName} :
          Add(x, c, LUNCH, n)
    \/ \E id \in TxIds : DelPress(id)
    \/ \E update \in OtherUpdates : FromOther(update)

SpecAuthorization == Init /\ [][NextAuthorization]_vars

(***************************************************************************)
(* Properties.                                                             *)
(***************************************************************************)
\* the polarity rule of the specification: the change a transaction of the
\* given type makes to the balance of an asset of the given kind
Polarity(kind, type, amount) ==
    IF kind = "CREDIT"
    THEN (IF type = "EXPENSE" THEN amount ELSE -amount)
    ELSE (IF type = "EXPENSE" THEN -amount ELSE amount)

\* the polarity-signed sum of a set of transactions on an asset of a kind
RECURSIVE SignedSum(_, _)
SignedSum(kind, S) ==
    IF S = {} THEN 0
    ELSE LET t == CHOOSE y \in S : TRUE
         IN  Polarity(kind, t.type, t.amount) + SignedSum(kind, S \ {t})

\* this step is a request that reached the ledger
Request == ops' # ops

RecordPaths == {"Manual", "Guided", "Auto"}

\* C1: a transaction recorded with a link to an asset and deleted by the
\* very next request leaves the asset's balance as it was before the record
C1_RoundTrip ==
    last.undo => assets[last.asset].balance = last.pre

\* C2: a record linked to a CREDIT asset raises its balance by the amount
\* of an EXPENSE and lowers it by the amount of an INCOME
C2_CreditRecordPolarity ==
    (/\ last.outcome = "recorded" /\ last.obs = 0 /\ last.asset # 0
     /\ assets[last.asset].type = "CREDIT")
    => LET tx == TxById(txs, last.tx)
       IN  assets[last.asset].balance =
             last.pre + (IF tx.type = "EXPENSE" THEN tx.amount ELSE -tx.amount)

\* C3: every deletion of a transaction linked to an asset changes the
\* asset's balance by the inverse of the polarity rule and removes the row
C3_DeleteReversal ==
    [][(Request /\ last'.outcome = "deleted" /\ last'.asset # 0)
       => LET tx == TxById(txs, last'.tx)
              a == tx.asset_id
          IN  /\ assets'[a].balance =
                   assets[a].balance - Polarity(assets[a].type, tx.type, tx.amount)
              /\ txs' = txs \ {tx}]_vars

\* C4: after an auto-detected record that resolved an asset and carried no
\* observations, the store holds the transaction linked to the asset and
\* the adjusted balance
C4_RecordAtomic ==
    (/\ last.op = "dual" /\ last.outcome = "recorded" /\ last.obs = 0
     /\ last.asset # 0)
    => LET tx == TxById(txs, last.tx)
       IN  /\ tx.asset_id = last.asset
           /\ assets[last.asset].balance =
                last.pre + DualDelta(assets[last.asset].type, tx.type, tx.amount)

\* C5: every balance is its last direct set plus the polarity-signed
\* amounts of the stored transactions linked to the asset since that set
C5_BalanceInvariant ==
    \A a \in AssetIds :
        LET since == {t \in txs : t.id \in acct[a].since /\ t.asset_id = a}
        IN  assets[a].balance = acct[a].base + SignedSum(assets[a].type, since)

\* C6: no two stored transactions recorded within 24 hours of each other
\* have the same amount, type and category
C6_DuplicateSuppression ==
    \A t1, t2 \in txs :
        (/\ t1.raw_text \in RecordPaths /\ t2.raw_text \in RecordPaths
         /\ t1.amount = t2.amount /\ t1.type = t2.type /\ t1.category = t2.category
         /\ Abs(t1.date - t2.date) * TICK_HOURS <= DUP_WINDOW_HOURS)
        => t1.id = t2.id

\* a /transfer that resolved both names
TransferDone == Request /\ last'.op = "transfer" /\ last'.asset # 0 /\ last'.to # 0

\* C7: a transfer between non-CREDIT assets keeps the sum of the two
\* balances, and moves the amount from one to the other when they differ
C7_TransferConservation ==
    [][(/\ TransferDone
        /\ assets[last'.asset].type # "CREDIT" /\ assets[last'.to].type # "CREDIT")
       => LET A == last'.asset
              B == last'.to
              x == last'.amount
          IN  /\ assets'[A].balance + assets'[B].balance =
                   assets[A].balance + assets[B].balance
              /\ A # B => /\ assets'[A].balance = assets[A].balance - x
                          /\ assets'[B].balance = assets[B].balance + x]_vars

C7_Witness ==
    /\ last.op = "transfer" /\ last.outcome = "ok"
    /\ last.asset # last.to
    /\ assets[last.asset].type # "CREDIT" /\ assets[last.to].type # "CREDIT"

\* the change the specification asks of each side of a transfer
SourceChange(kind, x) == IF kind = "CREDIT" THEN x ELSE -x
DestinationChange(kind, x) == IF kind = "CREDIT" THEN -x ELSE x

\* C8 as stated: every transfer changes the source by the source rule and
\* the destination by the destination rule, and no other balance
C8_TransferPolarity_Stated ==
    [][TransferDone
       => LET A == last'.asset
              B == last'.to
              x == last'.amount
          IN  /\ assets'[A].balance =
                   assets[A].balance + SourceChange(assets[A].type, x)
              /\ assets'[B].balance =
                   assets[B].balance + DestinationChange(assets[B].type, x)
              /\ \A a \in AssetIds \ {A, B} : assets'[a] = assets[a]]_vars

\* C8, amended: so it is when source and destination are distinct assets;
\* a transfer from an asset to itself leaves its balance unchanged
C8_TransferPolarity ==
    [][TransferDone
       => LET A == last'.asset
              B == last'.to
              x == last'.amount
          IN  /\ A # B => /\ assets'[A].balance =
                               assets[A].balance + SourceChange(assets[A].type, x)
                          /\ assets'[B].balance =
                               assets[B].balance + DestinationChange(assets[B].type, x)
              /\ A = B => assets'[A].balance = assets[A].balance
              /\ \A a \in AssetIds \ {A, B} : assets'[a] = assets[a]]_vars

C8_Witness ==
    /\ last.op = "transfer" /\ last.outcome = "ok"
    /\ last.asset # last.to
    /\ assets[last.asset].type = "CREDIT"

\* C9: a transfer that resolved both names adds exactly two rows, an
\* EXPENSE on the source and an INCOME on the destination, of the amount
\* transferred and of category TRANSFER; a /transfer that moves a balance
\* is one that adds them
C9_TransferRows ==
    [][(Request /\ last'.op = "transfer")
       => /\ (last'.asset # 0 /\ last'.to # 0) =>
                \E e, i \in txs' \ txs :
                    /\ txs' = txs \cup {e, i} /\ e # i
                    /\ e.type = "EXPENSE" /\ e.asset_id = last'.asset
                    /\ i.type = "INCOME" /\ i.asset_id = last'.to
                    /\ e.amount = last'.amount /\ i.amount = last'.amount
                    /\ e.category = "TRANSFER" /\ i.category = "TRANSFER"
          /\ assets' # assets => Cardinality(txs' \ txs) = 2]_vars

C9_Witness ==
    /\ last.op = "transfer" /\ last.outcome = "ok"
    /\ \E e, i \in txs : e.id = last.tx /\ i.id = last.tx + 1
                         /\ e.category = "TRANSFER" /\ i.category = "TRANSFER"

\* C10: a /transfer with a name that matches no asset leaves the store as
\* it was: no asset created, no balance changed, no row added
C10_TransferNotFound ==
    [][(Request /\ last'.op = "transfer" /\ (last'.asset = 0 \/ last'.to = 0))
       => /\ last'.outcome = "asset_not_found"
          /\ assets' = assets
          /\ txs' = txs]_vars

C10_Witness ==
    /\ last.op = "transfer" /\ last.outcome = "asset_not_found"
    /\ last.asset # 0 /\ last.to = 0
\* the store of the scenario: Alipay (LIQUID) set to 1000 and Visa (CREDIT)
\* set to 500, no balance set since
ScenarioStore ==
    /\ Len(assets) = 2
    /\ assets[1].name = ALIPAY /\ assets[1].type = "LIQUID" /\ acct[1].base = 1000
    /\ assets[2].name = VISA /\ assets[2].type = "CREDIT" /\ acct[2].base = 500

\* C11: from Alipay 1000 and Visa 500, an EXPENSE of 100 (Food) recorded
\* against Visa leaves Visa at 600, and a transfer of 200 from Alipay to
\* Visa after it leaves Alipay at 800 and Visa at 400
C11_Scenario ==
    /\ (/\ ScenarioStore /\ ops = 1
        /\ last.outcome = "recorded" /\ last.asset = 2 /\ last.obs = 0
        /\ \E t \in txs : /\ t.id = last.tx /\ t.type = "EXPENSE"
                           /\ t.amount = 100 /\ t.category = "Food")
       => assets[2].balance = 600
    /\ (/\ ScenarioStore /\ ops = 2
        /\ last.op = "transfer" /\ last.outcome = "ok" /\ last.amount = 200
        /\ last.asset = 1 /\ last.to = 2
        /\ \E t \in txs : /\ t.raw_text \in RecordPaths /\ t.type = "EXPENSE"
                           /\ t.amount = 100 /\ t.category = "Food"
                           /\ t.asset_id = 2)
       => assets[1].balance = 800 /\ assets[2].balance = 400
\* C12: no stored transaction has a negative amount, and a classified
\* message whose transaction amount is not positive stores no transaction
C12_AmountInvariant ==
    [][/\ \A t \in txs' : t.amount >= 0
       /\ (Request /\ last'.op = "dual" /\ last'.amount <= 0) => txs' = txs]_vars

\* C13: a record that resolves a non-CREDIT asset (and carries no
\* observation) lowers its balance by the amount of an EXPENSE, raises it
\* by the amount of an INCOME, and changes no other balance
C13_NonCreditRecordPolarity ==
    [][(/\ Request /\ last'.outcome = "recorded" /\ last'.obs = 0
        /\ last'.asset # 0 /\ assets[last'.asset].type # "CREDIT")
       => LET a == last'.asset
              tx == TxById(txs', last'.tx)
          IN  /\ assets'[a].balance =
                   assets[a].balance +
                   (IF tx.type = "EXPENSE" THEN -tx.amount ELSE tx.amount)
              /\ \A b \in AssetIds \ {a} : assets'[b].balance = assets[b].balance]_vars

\* C14: an auto-detected record skipped as a duplicate adds no transaction,
\* links none, and changes no balance: a balance that changes in the same
\* message is one its observations set and its summary lists as updated
C14_DuplicateSkipFrame ==
    [][(Request /\ last'.op = "dual" /\ last'.outcome = "skipped_duplicate")
       => /\ txs' = txs
          /\ last'.obs = 0 => assets' = assets
          /\ \A a \in AssetIds :
                assets'[a] # assets[a] =>
                    /\ \E i \in DOMAIN last'.updated : last'.updated[i] = assets[a].name
                    /\ assets'[a].balance \in ObsBalances]_vars

C14_Witness ==
    /\ last.op = "dual" /\ last.outcome = "skipped_duplicate"
    /\ last.obs > 0 /\ last.updated # <<>>

\* a stored transaction with the submitted amount, type and category, dated
\* within the trailing 24 hours
StoredMatchInWindow(rows, data) ==
    \E t \in rows :
        /\ t.amount = data.amount /\ t.type = data.type /\ t.category = data.category
        /\ (now - t.date) * TICK_HOURS <= DUP_WINDOW_HOURS

\* C15: an auto-detected submission is skipped exactly when a stored
\* transaction matches it within the trailing 24 hours: a match older than
\* that, or one deleted in between, does not suppress it
C15_DuplicateWindow ==
    [][(Request /\ last'.op = "dual"
        /\ last'.outcome \in {"recorded", "skipped_duplicate"})
       => (last'.outcome = "skipped_duplicate" <=> StoredMatchInWindow(txs, last'))]_vars

\* the submission repeats the earlier transaction within the hour, after
\* that transaction was deleted, and is recorded under the freed id
C15_Witness ==
    /\ last.op = "dual" /\ last.outcome = "recorded" /\ last.tx = 1 /\ now = 0
    /\ last.amount = EarlierRow.amount /\ last.type = EarlierRow.type
    /\ last.category = EarlierRow.category
    /\ \E t \in txs : t.id = 1 /\ t.raw_text = "Auto"
\* the observations of the last message that name a stored asset exactly
\* and are the only ones of the message with that name
Once(batch, i) == \A j \in DOMAIN batch : batch[j].name = batch[i].name => j = i
Listed(names, name) == \E i \in DOMAIN names : names[i] = name

C17_ExactNameOnly ==
    [][(Request /\ last'.op = "dual" /\ ~last'.failed)
       => /\ \A i \in DOMAIN last'.observed :
                LET item == last'.observed[i]
                IN  ((\A a \in AssetIds : assets[a].name # item.name)
                     /\ Once(last'.observed, i))
                    => \E n \in DOMAIN assets' \ AssetIds :
                         /\ assets'[n].name = item.name
                         /\ assets'[n].balance = item.balance
                         /\ assets'[n].category =
                              (IF item.category # "-" THEN item.category ELSE "OTHERS")
                         /\ assets'[n].currency =
                              (IF item.currency # "-" THEN item.currency
                               ELSE env.DEFAULT_CURRENCY)
          /\ \A a \in AssetIds :
                (\A i \in DOMAIN last'.observed : last'.observed[i].name # assets[a].name)
                => assets'[a] = assets[a]]_vars

\* C18: when one observation of a message fails, the others are persisted;
\* and the names reported updated are those of the assets the message
\* created or whose stored balance it changed (for a name the message
\* carries once)
C18_BatchObservations ==
    [][(Request /\ last'.op = "dual" /\ last'.observed # <<>>)
       => /\ \A i \in DOMAIN last'.observed :
                LET item == last'.observed[i]
                IN  (/\ item.numeric /\ Once(last'.observed, i)
                     /\ \A a \in AssetIds : assets[a].name = item.name =>
                            Abs(item.balance - assets[a].balance) >= EPSILON)
                    => \E a \in DOMAIN assets' :
                         /\ assets'[a].name = item.name
                         /\ assets'[a].balance = item.balance
          /\ \A a \in DOMAIN assets' :
                (\A i, j \in DOMAIN last'.observed :
                    (last'.observed[i].name = assets'[a].name
                     /\ last'.observed[j].name = assets'[a].name) => i = j)
                => (Listed(last'.updated, assets'[a].name)
                    <=> (a \notin AssetIds \/ assets'[a].balance # assets[a].balance))]_vars
\* the stored transactions whose description contains the term, letter
\* case aside
Matching(rows, term) ==
    {t \in rows : Contains(LowerStr(t.description), LowerStr(term))}

\* C19: a search deletion with no stored description containing the term
\* changes nothing and answers not found; with exactly one it deletes that
\* transaction and no other; with two or more it deletes nothing, changes
\* no balance and lists at most three of them, the most recent first
C19_SearchDelete ==
    [][(Request /\ last'.op = "delete_intent" /\ last'.term # EMPTY)
       => LET matching == Matching(txs, last'.term)
              listed == last'.listed
          IN  CASE matching = {} ->
                     /\ last'.outcome = "not_found"
                     /\ txs' = txs /\ assets' = assets
                [] Cardinality(matching) = 1 ->
                     /\ last'.outcome = "deleted"
                     /\ txs' = txs \ matching
                [] OTHER ->
                     /\ last'.outcome = "ambiguous"
                     /\ txs' = txs /\ assets' = assets
                     /\ Len(listed) <= 3
                     /\ listed = Listing(matching)]_vars
StoreUnchanged == assets' = assets /\ txs' = txs /\ budgets' = budgets

\* what a command owes a call with too few arguments, and a call with all
\* its arguments whose amount is no number
Validated(called, short, malformed, op) ==
    called => /\ short => (last'.op = op /\ last'.outcome = "usage" /\ StoreUnchanged)
              /\ malformed => (last'.op = op /\ last'.outcome = "error" /\ StoreUnchanged)

ValidatedLedgerCommands ==
    /\ \A args \in AddArgs :
          Validated(CmdAdd(args), args.len < 3,
                    args.len >= 3 /\ ~args.amount.numeric, "add")
    /\ \A args \in SetBalanceArgs :
          Validated(CmdSetBalance(args), args.len < 2,
                    args.len >= 2 /\ ~args.amount.numeric, "setbalance")
    /\ \A args \in TransferArgs :
          Validated(CmdTransfer(args), args.len < 3,
                    args.len >= 3 /\ ~args.amount.numeric, "transfer")

\* C20: /add, /setbalance and /transfer answer a call with too few
\* arguments with the usage line and a call whose amount is no number with
\* an error, and so does /budget called with one argument, or with a limit
\* that is no number; /budget without arguments shows the budget status;
\* in all these cases assets, transactions and budgets stay as they are
C20_CommandValidation ==
    [][/\ ValidatedLedgerCommands
       /\ \A args \in BudgetArgs :
             /\ Validated(CmdBudget(args), args.len = 1,
                          args.len >= 2 /\ ~args.limit.numeric, "budget")
             /\ (CmdBudget(args) /\ args.len = 0)
                => (last'.outcome = "status" /\ StoreUnchanged)]_vars

\* a budget exists and /budget with one argument got the usage line
C20_Witness ==
    /\ budgets # {}
    /\ last.op = "budget" /\ last.outcome = "usage"

\* C20 as stated: every one of the four commands, /budget included, answers
\* any call with fewer than its required arguments with the usage line
C20_CommandValidation_Stated ==
    [][/\ ValidatedLedgerCommands
       /\ \A args \in BudgetArgs :
             Validated(CmdBudget(args), args.len < 2,
                       args.len >= 2 /\ ~args.limit.numeric, "budget")]_vars
\* C21: when the classifier call raises or its answer cannot be parsed, the
\* handler answers with the fallback's reply as a chat and no asset,
\* transaction or budget is created, changed or deleted
C21_ClassifierFailure ==
    [][\A response \in Responses :
          (HandleMessage(response) /\ response.kind # "json")
          => /\ analyze_input(response).intent = "CHAT"
             /\ analyze_input(response).tx = NoTx
             /\ analyze_input(response).assets = <<>>
             /\ last'.op = "chat"
             /\ last'.reply = analyze_input(response).reply
             /\ StoreUnchanged]_vars

\* a failed call was answered as a chat while a transaction is stored
C21_Witness ==
    /\ last.op = "chat" /\ last.reply = Fallback.reply
    /\ txs # {}

Carries(result) == (result.tx # NoTx /\ result.tx.amount # 0) \/ result.assets # <<>>

\* C22: a result that carries transaction data with an amount or
\* observations is handled by the record path alone, whatever its intent:
\* nothing is deleted and no query or chat answer is given; a result that
\* carries neither is handled by its intent alone and creates or changes no
\* transaction and no asset
C22_IntentExclusivity ==
    [][\A response \in Responses :
          (HandleMessage(response) /\ response.kind = "json")
          => IF Carries(response.result)
             THEN /\ last'.op = "dual"
                  /\ txs \subseteq txs'
             ELSE /\ last'.op = (CASE response.result.intent = "QUERY" -> "query"
                                   [] response.result.intent = "DELETE" -> "delete_intent"
                                   [] OTHER -> "chat")
                  /\ assets' = assets
                  /\ txs' \subseteq txs
                  /\ response.result.intent # "DELETE" => txs' = txs]_vars

\* a result with intent DELETE that carried observations went down the
\* record path, and the stored transaction is still there
C22_Witness ==
    /\ last.op = "dual" /\ last.intent = "DELETE"
    /\ last.observed # <<>>
    /\ txs # {}
\* the rows of the given type dated at or after the hour `from`, and their sum
Dated(type, from) == {t \in txs : t.type = type /\ t.date * TICK_HOURS >= from}

RECURSIVE Amounts(_)
Amounts(rows) ==
    IF rows = {} THEN 0
    ELSE LET t == CHOOSE r \in rows : \A o \in rows : o.id <= r.id
         IN  Amounts(rows \ {t}) + t.amount

\* the fraction q is the number n / d, d > 0
Is(q, n, d) == q.d > 0 /\ d % q.d = 0 /\ q.n * (d \div q.d) = n

FirstInstantOfMonth == (LocalNow \div (30 * 24)) * (30 * 24)

\* C23: the monthly summary counts the transactions dated on or after the
\* first instant of the current month: total_income and total_expense are
\* the sums of their INCOME and EXPENSE amounts, net_savings the difference,
\* savings_rate net_savings / total_income * 100 when total_income > 0 and
\* 0 otherwise, daily_average total_expense / max(1, day of month); /report
\* shows these figures
C23_MonthlySummary ==
    LET income == Amounts(Dated("INCOME", FirstInstantOfMonth))
        expense == Amounts(Dated("EXPENSE", FirstInstantOfMonth))
        day == Max({1, DayOfMonth(LocalNow)})
        stats == get_monthly_summary
    IN  /\ stats.total_income = income
        /\ stats.total_expense = expense
        /\ stats.net_savings = income - expense
        /\ IF income > 0 THEN Is(stats.savings_rate, (income - expense) * 100, income)
           ELSE Is(stats.savings_rate, 0, 1)
        /\ Is(stats.daily_average, expense, day)
        /\ (last.op = "report" /\ last.outcome = "reported") => last.report.stats = stats

\* INCOME 5000.00 and EXPENSE 1000.00 this month, reported on day 10:
\* 5000.00, 1000.00, 4000.00, 80 %, 100.00 a day
C23_Witness ==
    /\ last.op = "report" /\ last.outcome = "reported"
    /\ DayOfMonth(LocalNow) = 10
    /\ {t.id : t \in Dated("INCOME", 0) \cup Dated("EXPENSE", 0)} = {1, 2, 4}
    /\ last.report.stats.total_income = 1000000
    /\ last.report.stats.total_expense = 200000
    /\ last.report.stats.net_savings = 800000
    /\ last.report.stats.savings_rate = [n |-> 80, d |-> 1]
    /\ last.report.stats.daily_average = [n |-> 20000, d |-> 1]


\* the fraction q is the number n / d, d # 0
IsQuotient(q, n, d) == IF d > 0 THEN Is(q, n, d) ELSE Is(q, -n, -d)

\* C24: the weekly trend is unavailable whenever the EXPENSE total of the
\* prior window is 0, whatever the total of the current window; otherwise
\* it is |current - prior| / prior * 100, with direction up when
\* current > prior and down when current < prior; /report shows it so
C24_WeeklyTrend ==
    (last.op = "report" /\ last.outcome = "reported") =>
        LET weekly == last.report.weekly
            current == weekly.this_week
            prior == weekly.last_week
        IN  /\ weekly = get_weekly_trend
            /\ IF prior = 0 THEN ~weekly.trend.available
               ELSE /\ weekly.trend.available
                    /\ IsQuotient(weekly.trend.percent, Abs(current - prior) * 100, prior)
                    /\ current > prior => weekly.trend.direction = "up"
                    /\ current < prior => weekly.trend.direction = "down"

\* the EXPENSE rows with a timestamp in [lo, hi)
Window(lo, hi) ==
    {t \in txs : /\ t.type = "EXPENSE"
                 /\ t.date * TICK_HOURS >= lo
                 /\ t.date * TICK_HOURS < hi}

\* the clock is read after the rows of the current tick were stamped: a
\* timestamp is before now unless it is a later hour than the reading
Now == LocalNow + 1

\* C25: the weekly trend shows as this week's total the sum of the EXPENSE
\* amounts with a timestamp in [now - 7d, now) and as last week's total the
\* sum of those in [now - 14d, now - 7d); a transaction with a timestamp
\* >= now or < now - 14d is in neither total, and none is in both
C25_WeeklyWindows ==
    (last.op = "report" /\ last.outcome = "reported") =>
        /\ last.report.weekly.this_week = Amounts(Window(LocalNow - 7 * 24, Now))
        /\ last.report.weekly.last_week =
              Amounts(Window(LocalNow - 14 * 24, LocalNow - 7 * 24))


\* the entries of the budget status just shown
StatusShown ==
    /\ last.op = "budget" /\ last.outcome = "status"
    /\ last.report.kind = "budget_status"

\* this month's EXPENSE amounts in the category
Spent(category) ==
    Amounts({t \in Dated("EXPENSE", FirstInstantOfMonth) : t.category = category})

\* the status shows for every budget what it spent, and raises the alert
\* exactly when the percentage is at least alert_threshold * 100
StatusOf(budget, entry) ==
    /\ entry.spent = Spent(budget.category)
    /\ entry.limit = budget.limit_amount
    /\ entry.alert <=> entry.percent.n >= budget.alert_threshold * entry.percent.d

\* C26 as stated: spent is the sum of this month's EXPENSE amounts in the
\* budget's category, percent is spent / limit * 100, and 100 when the
\* limit is 0; the alert is raised exactly when percent >= alert_threshold
\* * 100
C26_BudgetStatus_Stated ==
    StatusShown =>
        /\ DOMAIN last.report.entries = {b.id : b \in budgets}
        /\ \A b \in budgets :
             LET entry == last.report.entries[b.id]
             IN  /\ StatusOf(b, entry)
                 /\ IF b.limit_amount = 0 THEN Is(entry.percent, 100, 1)
                    ELSE IsQuotient(entry.percent, entry.spent * 100, b.limit_amount)

\* C26: spent is the sum of this month's EXPENSE amounts in the budget's
\* category, percent is spent / limit * 100 for a limit above 0 and 100
\* for every other limit; the alert is raised exactly when percent >=
\* alert_threshold * 100
C26_BudgetStatus ==
    StatusShown =>
        /\ DOMAIN last.report.entries = {b.id : b \in budgets}
        /\ \A b \in budgets :
             LET entry == last.report.entries[b.id]
             IN  /\ StatusOf(b, entry)
                 /\ IF b.limit_amount <= 0 THEN Is(entry.percent, 100, 1)
                    ELSE Is(entry.percent, entry.spent * 100, b.limit_amount)

\* a budget of 250.00 with 200.00 spent this month, and more in the month
\* before, is shown at 80 % and with the alert
C26_Witness ==
    /\ StatusShown
    /\ \E t \in txs : t.category = "Food" /\ t.date * TICK_HOURS < FirstInstantOfMonth
    /\ \E b \in budgets :
         /\ b.limit_amount = 50000
         /\ last.report.entries[b.id].spent = 40000
         /\ last.report.entries[b.id].percent = [n |-> 80, d |-> 1]
         /\ last.report.entries[b.id].alert

\* floor(n / d), d # 0
Floor(n, d) == IF d > 0 THEN n \div d ELSE (-n) \div (-d)

\* C27: for every budget the progress indicator is 10 cells wide, of which
\* min(10, floor(10 * spent / limit)) are filled, so it never shows more
\* than 100 %; 100.00 spent of a limit of 200.00 gives 5 filled and 5 empty
\* cells and 50 %
C27_ProgressIndicator ==
    StatusShown =>
        \A b \in budgets :
            LET entry == last.report.entries[b.id]
            IN  /\ entry.bar.cells
                /\ entry.bar.filled + entry.bar.empty = 10
                /\ b.limit_amount # 0 =>
                      entry.bar.filled =
                        Min({10, Floor(10 * entry.spent, b.limit_amount)})
                /\ (entry.spent = 20000 /\ b.limit_amount = 40000) =>
                      /\ entry.bar.filled = 5 /\ entry.bar.empty = 5
                      /\ entry.percent = [n |-> 50, d |-> 1]


\* a category name without its letter case
CaseFolded(category) ==
    LET name == Spelling(category)
    IN  [i \in DOMAIN name |-> IF name[i] = "E'" THEN "e'" ELSE Lower(name[i])]

\* C28: after any sequence of /budget <category> <limit>, also with
\* categories that differ only in letter case, there is at most one budget
\* per category: setting the budget of a category that has one changes its
\* limit and adds no second budget
C28_OneBudgetPerCategory ==
    /\ \A b1 \in budgets, b2 \in budgets :
          CaseFolded(b1.category) = CaseFolded(b2.category) => b1 = b2
    /\ [][\A args \in BudgetSettings :
            (/\ CmdBudget(args) /\ args.len = 2
             /\ \E b \in budgets : CaseFolded(b.category) = CaseFolded(args.category))
            => /\ Cardinality(budgets') = Cardinality(budgets)
               /\ \E b \in budgets' :
                    /\ CaseFolded(b.category) = CaseFolded(args.category)
                    /\ b.limit_amount = args.limit.n]_vars


RECURSIVE Sum(_)
\* the sum of a sequence of numbers
Sum(numbers) == IF numbers = <<>> THEN 0 ELSE Head(numbers) + Sum(Tail(numbers))

RECURSIVE Totals(_, _)
\* the sum of the totals of the categories
Totals(distribution, categories) ==
    IF categories = {} THEN 0
    ELSE LET c == CHOOSE x \in categories : TRUE
         IN  distribution[c] + Totals(distribution, categories \ {c})

\* C29: the asset summary's total_balance is the plain sum of the balances
\* of all stored assets whatever their kind (a CREDIT balance is added),
\* the totals of the categories sum to total_balance, the report computes
\* this summary, and after observations that each create an asset the
\* total has grown by the sum of the observed balances (from an empty
\* store: it equals that sum)
C29_AssetSummary ==
    /\ get_asset_summary.total_asset_balance =
          Sum([a \in 1..Len(assets) |-> assets[a].balance])
    /\ Totals(get_asset_summary.asset_distribution,
              DOMAIN get_asset_summary.asset_distribution) =
          get_asset_summary.total_asset_balance
    /\ (last.op = "report" /\ last.outcome = "reported") =>
          last.report.assets = get_asset_summary
    /\ [][(/\ \E res \in WalletResults : MsgDualIntent(res)
            /\ Len(assets') = Len(assets) + Len(last'.observed))
           => get_asset_summary'.total_asset_balance =
                get_asset_summary.total_asset_balance +
                Sum([i \in 1..Len(last'.observed) |-> last'.observed[i].balance])]_vars

\* two observations on an empty store create a fund and a card; the total
\* is the sum of the two observed balances
C29_Witness ==
    /\ last.op = "dual" /\ Len(last.observed) = 2
    /\ Len(assets) = 2
    /\ \A a \in AssetIds : assets[a].category \notin {"Wallet", "Credit"}
    /\ get_asset_summary.total_asset_balance = 1001 + 500


\* the balances of the assets of the given kinds
Held(kinds) == Sum([a \in 1..Len(assets) |->
                      IF assets[a].type \in kinds THEN assets[a].balance ELSE 0])

\* the kinds the stored assets have
StoredKinds == {assets[a].type : a \in AssetIds}

\* C30 as stated: the net worth of the wallet overview is the sum of the
\* LIQUID balances plus the sum of the INVESTMENT balances minus the sum of
\* the CREDIT balances, for every store and every kind an asset can have
C30_NetWorth_Stated ==
    (last.op = "wallet" /\ last.outcome = "shown") =>
        last.report.net_worth =
            (Held({"LIQUID"}) + Held({"INVESTMENT"})) - Held({"CREDIT"})

\* C30: the net worth of the wallet overview is the sum of the balances of
\* all assets that are not CREDIT (LIQUID, INVESTMENT, OTHER and every
\* other kind) minus the sum of the CREDIT balances
C30_NetWorth ==
    (last.op = "wallet" /\ last.outcome = "shown") =>
        last.report.net_worth =
            Held(StoredKinds \ {"CREDIT"}) - Held({"CREDIT"})

\* the overview of a store with a card set to CREDIT and an asset of a kind
\* of the user's own
C30_Witness ==
    /\ last.op = "wallet" /\ last.outcome = "shown"
    /\ \E a \in AssetIds : assets[a].type = "CREDIT" /\ assets[a].balance > 0
    /\ \E a \in AssetIds : assets[a].type \notin Kinds


\* the step is a call of the aggregation: the report (monthly summary,
\* summary text with the asset summary, weekly trend), the budget status,
\* or a query (category spending, or monthly summary and summary text)
AggregationCall ==
    /\ ops' = ops + 1
    /\ \/ last'.op \in {"report", "query"}
       \/ last'.op = "budget" /\ last'.outcome = "status"

\* C31: the aggregation is read-only: a call of monthly_summary,
\* category_spending, weekly_trend, budget_status, asset_summary or
\* format_summary_text leaves every asset, transaction and budget as it
\* was, in any state and in any order of calls
C31_AggregationReadOnly ==
    [][AggregationCall => /\ assets' = assets
                          /\ txs' = txs
                          /\ budgets' = budgets]_vars

\* a second call, a query for the spending of a category, on a store with
\* assets, transactions and a budget
C31_Witness ==
    /\ ops = 2
    /\ last.op = "query" /\ last.report.kind = "category_spending"
    /\ last.report.total > 0
    /\ assets # <<>> /\ budgets # {}


\* what a record, a transfer or a deletion adds to the balance of asset a
\* of the current store
Adjustment(op, a) ==
    IF op.kind = "add"
    THEN (IF a \in Matches(op.name) THEN op.amount ELSE 0)
    ELSE IF op.kind = "transfer"
    THEN (IF Matches(op.name) = {} \/ Matches(op.to) = {} THEN 0
          ELSE (IF a \in Matches(op.name)
                THEN (IF assets[a].type = "CREDIT" THEN op.amount ELSE -op.amount)
                ELSE 0)
               + (IF a \in Matches(op.to)
                  THEN (IF assets[a].type = "CREDIT" THEN -op.amount ELSE op.amount)
                  ELSE 0))
    ELSE IF \E t \in txs : t.id = op.tx /\ t.asset_id = a
    THEN LET t == TxById(txs, op.tx)
         IN  IF (t.type = "EXPENSE") = (assets[a].type = "CREDIT")
             THEN -t.amount ELSE t.amount
    ELSE 0

\* C32: a record, a transfer and a deletion read the balance of an asset
\* and write back the changed value, with no lock and no row version: when
\* two of them adjust the same asset in separate sessions and the second
\* reads before the first commits, the balance stored in the end carries
\* one of the two adjustments only
C32_LostUpdate ==
    [][\A first \in SessionOps, second \in SessionOps :
         Concurrent(first, second) =>
            \A a \in AssetIds :
                (Adjustment(first, a) # 0 /\ Adjustment(second, a) # 0)
                => /\ assets'[a].balance \in {assets[a].balance + Adjustment(first, a),
                                              assets[a].balance + Adjustment(second, a)}
                   /\ assets'[a].balance #
                        assets[a].balance + Adjustment(first, a) + Adjustment(second, a)]_vars

\* two records of 1.00 on Alipay (balance 10.00) in overlapping sessions:
\* both rows are stored, the balance is 9.50, not 9.00
C32_Witness ==
    /\ last.op = "concurrent"
    /\ Cardinality({t \in txs : t.asset_id = 1 /\ t.amount = 100
                                /\ t.type = "EXPENSE"}) = 2
    /\ ops = 1
    /\ assets[1].balance = 1000 - 100


\* C33: after /transfer A B x between two distinct assets of kinds other
\* than CREDIT, the confirmed deletion of one of the two TRANSFER rows
\* reverses the asset of that row only and leaves the other row stored, so
\* the two balances together differ from their value before the transfer
\* by x; the deletion of both rows brings both balances back to their
\* values before the transfer
C33_TransferLegDeletion ==
    /\ [](\A t \in txs :
            (txs = {t} /\ t.category = "TRANSFER") =>
              \A a \in AssetIds, b \in AssetIds :
                 (/\ a # b /\ t.asset_id = a
                  /\ assets[a].type # "CREDIT" /\ assets[b].type # "CREDIT")
                 => /\ assets[b].balance = acct[b].base
                    /\ assets[a].balance =
                         acct[a].base + (IF t.type = "INCOME" THEN t.amount ELSE -t.amount)
                    /\ Abs((assets[a].balance + assets[b].balance)
                            - (acct[a].base + acct[b].base)) = Abs(t.amount))
    /\ [](txs = {} =>
            \A a \in AssetIds :
                assets[a].type # "CREDIT" => assets[a].balance = acct[a].base)
    /\ [][\A id \in TxIds :
            (CfmDel(id) /\ TxById(txs, id).category = "TRANSFER")
            => /\ txs' = txs \ {TxById(txs, id)}
               /\ \A a \in AssetIds :
                    a # TxById(txs, id).asset_id => assets'[a] = assets[a]]_vars

\* /transfer ali visa 2.00 between an investment account (10.00) and an
\* account of kind OTHER (5.00), then the row of the source deleted: the
\* source is back at 10.00, the destination stays at 7.00 with its row
C33_Witness ==
    /\ ops = 2
    /\ last.op = "cfm_del" /\ last.outcome = "deleted" /\ last.tx = 1
    /\ \E t \in txs : /\ txs = {t}
                       /\ t.id = 2 /\ t.type = "INCOME" /\ t.asset_id = 2
                       /\ t.amount = 200
    /\ assets[1].type = "INVESTMENT" /\ assets[1].balance = 1000
    /\ assets[2].type = "OTHER" /\ assets[2].balance = 700


\* a message with one observation, of asset a under its exact name and
\* 0.01 or more away from what the balance of a is with the transaction
\* of the message, whose asset hint resolves to a
MixedInput(res, a) ==
    /\ Matches(res.tx.asset_name) = {a}
    /\ Len(res.assets) = 1
    /\ res.assets[1].name = assets[a].name
    /\ Abs(res.assets[1].balance
           - (assets[a].balance
              + (IF res.tx.type = "EXPENSE" THEN -res.tx.amount ELSE res.tx.amount)))
       >= EPSILON
    /\ MsgDualIntent(res)

C35_ConfirmedDelete ==
    /\ [][(ops' = ops /\ buttons' # buttons)
          => (assets' = assets /\ txs' = txs /\ budgets' = budgets)]_vars
    /\ [][~(txs \subseteq txs') => last'.op = "cfm_del"]_vars
    /\ [][CfmDel(1) => (/\ last'.outcome = "not_found"
                        /\ txs' = txs
                        /\ assets' = assets)]_vars


\* C36: once the details of a guided log are stored, the first choice of
\* a source records exactly one transaction, changes the balance of the
\* chosen asset by the polarity rule and clears the session; a further
\* choice of a source without new details finds the session expired,
\* records nothing and changes no balance
C36_GuidedLogOnce ==
    /\ [][\A a \in AssetIds :
            (SelSrc(a) /\ user_data.log_data # NoLog)
            => LET tx_data == user_data.log_data
               IN  /\ \E t \in txs' \ txs :
                        /\ txs' = txs \cup {t}
                        /\ t.asset_id = a
                        /\ t.amount = tx_data.amount /\ t.type = tx_data.type
                        /\ t.category = tx_data.category
                   /\ assets'[a].balance = assets[a].balance
                        + Polarity(assets[a].type, tx_data.type, tx_data.amount)
                   /\ \A b \in AssetIds \ {a} : assets'[b] = assets[b]
                   /\ user_data'.log_data = NoLog]_vars
    /\ [][\A a \in AssetIds :
            (SelSrc(a) /\ user_data.log_data = NoLog)
            => (txs' = txs /\ assets' = assets)]_vars
    /\ [][txs' # txs => (user_data.log_data # NoLog /\ user_data'.log_data = NoLog)]_vars

\* an expense entered in the guided log and charged to the credit card
\* (5.00): one row, the debt has grown, the session is cleared
C36_Witness ==
    /\ last.op = "guided" /\ last.outcome = "recorded" /\ last.asset = 2
    /\ user_data.log_data = NoLog
    /\ assets[2].type = "CREDIT" /\ assets[2].balance > 500
    /\ \E t \in txs : txs = {t} /\ t.asset_id = 2 /\ t.type = "EXPENSE"


\* C37: an update whose sender is not the allowed user changes nothing in
\* the store, whatever handler it reaches, button callbacks included
C37_Authorization ==
    [][\A update \in OtherUpdates :
         FromOther(update)
         => (assets' = assets /\ txs' = txs /\ budgets' = budgets)]_vars


\* C38: /setbalance <name> <amount> with a name that is not exactly the
\* name of a stored asset creates an asset of that name with that balance
\* and leaves the balance and the kind of every stored asset as they were,
\* also when the name of a stored asset contains <name>
C38_SetBalanceTarget ==
    [][\A name \in NameArgs, amount \in SetAmounts :
         (/\ SetBalance(name, amount, NoKind)
          /\ \A a \in AssetIds : assets[a].name # name)
         => /\ Len(assets') = Len(assets) + 1
            /\ assets'[Len(assets')].name = name
            /\ assets'[Len(assets')].balance = amount
            /\ \A a \in AssetIds : /\ assets'[a].balance = assets[a].balance
                                    /\ assets'[a].type = assets[a].type]_vars

====
